---- MODULE Spec2Model ----
(***************************************************************************)
(* git-flow-mcp: the sync-work tool (src/src/tools/sync-work.ts) as a      *)
(* state machine over the command port.  One invocation of syncWork runs   *)
(* from pc = "gitCheck" to pc = "done"; every action executes exactly the  *)
(* git command the code executes at that place, with the command's outcome *)
(* chosen by the environment.  `log` is the history of the command port.   *)
(*                                                                         *)
(* Texts whose content the code inspects (command error output) are        *)
(* sequences of one-character strings, so that String.includes is a real,  *)
(* case-sensitive substring test.                                          *)
(***************************************************************************)
EXTENDS Integers, Sequences, FiniteSets, TLC

VARIABLES
    pc,                 \* position inside syncWork
    args,               \* the tool parameters
    steps,              \* steps: string[]
    warnings,           \* warnings: string[]
    conflicts,          \* conflicts: string[]
    currentBranch,      \* const currentBranch
    actualTargetBranch, \* const actualTargetBranch
    syncResult,         \* const syncResult
    fileIdx,            \* position of `for (const file of conflicts)`
    resolveResult,      \* let resolveResult (handleAutoResolve)
    resolvedCount,      \* let resolvedCount (handleAutoResolve)
    afterSync,          \* const afterSync
    log,                \* every command executed through executeGitCommand
    unmerged,           \* the repository: the paths of the index that are unmerged
    verdict,            \* the value returned by syncWork
    countResult,        \* getAheadBehindInfo alone: the result of the count command
    countInfo,          \* getAheadBehindInfo alone: the value it returned
    content,            \* analyzeFileConflicts alone: the lines of the file
    analysis,           \* analyzeFileConflicts alone: the value it returned
    rcPc,               \* position inside resolveConflicts
    rcArgs,             \* the parameters of resolveConflicts
    rcSteps,            \* steps: string[] of resolveConflicts
    rcWarnings,         \* warnings: string[] of resolveConflicts
    conflictedFiles,    \* const conflictedFiles
    rcFileIdx,          \* position of `for (const file of conflictedFiles)`
    rcResolveResult,    \* let resolveResult (resolve-conflicts.ts:442)
    totalResolved,      \* let totalResolved
    resolutionDetails,  \* const resolutionDetails
    conflictState,      \* const state = getConflictState()
    rcEntries,          \* what a reporting handler has written for each file
    rcLog,              \* every command executed through executeCommand
    fileLog,            \* every readFileSync and writeFileSync
    rcVerdict,          \* the value returned by resolveConflicts
    pbPc,               \* position inside prepareBranch
    pbArgs,             \* the parameters of prepareBranch
    pbSteps,            \* steps: string[] of prepareBranch
    pbWarnings,         \* warnings: string[] of prepareBranch
    stashCreated,       \* let stashCreated
    pbError,            \* the error on its way to the catch block
    pbLog,              \* every command executed by prepareBranch
    pbVerdict,          \* the value returned by prepareBranch
    blockOurs,          \* the rule chain alone: oursContent of the block
    blockTheirs,        \* the rule chain alone: theirsContent of the block
    blockChoice,        \* the rule chain alone: the resolution and strategy chosen
    smartPreview,       \* smart resolution of one file: what the preview counts
    smartApplied,       \* smart resolution of one file: what applySmartResolution did
    smartReparse,       \* smart resolution of one file: the blocks of the rewritten file
    owPc,               \* position inside orchestrateWorkflow
    owArgs,             \* the parameters of orchestrateWorkflow
    owSteps,            \* steps: string[] of orchestrateWorkflow
    owWarnings,         \* warnings: string[] of orchestrateWorkflow
    owPlatform,         \* const platform = detectPlatform()
    owBranch,           \* const workingBranch / releaseBranch
    owPr,               \* let prNumber (handleAddressFeedback)
    owMerged,           \* let mergedBranches (handleCleanup)
    owIdx,              \* position of `for (const branch of mergedBranches.slice(0, 5))`
    owLog,              \* every command orchestrateWorkflow has had executed
    owVerdict,          \* the value returned by orchestrateWorkflow
    owError             \* the error a handler of orchestrateWorkflow has thrown

\* the state of an invocation of syncWork
syncVars == <<pc, args, steps, warnings, conflicts, currentBranch, actualTargetBranch,
              syncResult, fileIdx, resolveResult, resolvedCount, afterSync, log, unmerged,
              verdict>>

\* the state of a call of getAheadBehindInfo checked on its own
countVars == <<countResult, countInfo>>

\* the state of a call of analyzeFileConflicts checked on its own
parseVars == <<content, analysis>>

\* the state of an invocation of resolveConflicts
rcVars == <<rcPc, rcArgs, rcSteps, rcWarnings, conflictedFiles, rcFileIdx, rcResolveResult,
            totalResolved, resolutionDetails, conflictState, rcEntries, rcLog, fileLog,
            rcVerdict>>

\* the state of an invocation of prepareBranch
pbVars == <<pbPc, pbArgs, pbSteps, pbWarnings, stashCreated, pbError, pbLog, pbVerdict>>

\* the state of the rule chain and of the smart resolution of one file, checked
\* on their own
smartVars == <<blockOurs, blockTheirs, blockChoice, smartPreview, smartApplied,
              smartReparse>>

\* the state of an invocation of orchestrateWorkflow
owVars == <<owPc, owArgs, owSteps, owWarnings, owPlatform, owBranch, owPr, owMerged, owIdx,
            owLog, owVerdict, owError>>

vars == <<syncVars, countVars, parseVars, rcVars, pbVars, smartVars, owVars>>

\* everything an invocation of syncWork leaves alone
outsideSyncWork == <<countVars, parseVars, rcVars, pbVars, smartVars, owVars>>

\* everything an invocation of resolveConflicts leaves alone
outsideResolveConflicts == <<syncVars, countVars, parseVars, pbVars, smartVars, owVars>>

\* everything an invocation of prepareBranch leaves alone
outsidePrepareBranch == <<syncVars, countVars, parseVars, rcVars, smartVars, owVars>>

----------------------------------------------------------------------------
(* Bounds and input sets *)

\* number of distinct paths the unmerged-files query can list
MaxFiles == 2

FileName(i) == CASE i = 1 -> "file1.txt" [] i = 2 -> "file2.txt" [] OTHER -> "file3.txt"

Branches == {"feature-branch", "target-branch"}

WithBranch == "main"

Undefined == "undefined"
Null == "null"
EmptyString == ""

Strategies == {"rebase", "merge", "fast-forward", "invalid"}

AutoResolveStrategies == {"ours", "theirs", "smart"}

----------------------------------------------------------------------------
(* Texts *)

NoText == <<>>

\* stderr of a merge or rebase that stopped on a conflict (test/tools/sync-work.test.ts:236)
ErrConflict == <<"C","O","N","F","L","I","C","T"," ","(","c","o","n","t","e","n","t",")",":"," ","M","e","r","g","e"," ","c","o","n","f","l","i","c","t"," ","i","n"," ","f","i","l","e","1",".","t","x","t">>

\* stderr of git merge --ff-only on diverged branches (test/tools/sync-work.test.ts:388)
ErrNotFastForward == <<"f","a","t","a","l",":"," ","N","o","t"," ","p","o","s","s","i","b","l","e"," ","t","o"," ","f","a","s","t","-","f","o","r","w","a","r","d",","," ","a","b","o","r","t","i","n","g",".">>

\* the same diagnostic in lower case
ErrNotFastForwardLower == <<"f","a","t","a","l",":"," ","n","o","t"," ","p","o","s","s","i","b","l","e"," ","t","o"," ","f","a","s","t","-","f","o","r","w","a","r","d">>

\* error.message of execSync when the command wrote nothing to stderr
ErrCommand == <<"C","o","m","m","a","n","d"," ","f","a","i","l","e","d">>

\* "Unknown auto-resolve strategy"
UnknownAutoResolve == <<"U","n","k","n","o","w","n"," ","a","u","t","o","-","r","e","s","o","l","v","e"," ","s","t","r","a","t","e","g","y">>

\* "not possible to fast-forward"
NotPossibleToFastForward == <<"n","o","t"," ","p","o","s","s","i","b","l","e"," ","t","o"," ","f","a","s","t","-","f","o","r","w","a","r","d">>

\* "Fast-forward not possible - branches have diverged"
FastForwardNotPossible == <<"F","a","s","t","-","f","o","r","w","a","r","d"," ","n","o","t"," ","p","o","s","s","i","b","l","e"," ","-"," ","b","r","a","n","c","h","e","s"," ","h","a","v","e"," ","d","i","v","e","r","g","e","d">>

\* "conflict", the indicator prepare-branch looks for (src/src/tools/prepare-branch.ts:270)
ConflictIndicator == <<"c","o","n","f","l","i","c","t">>

\* "Unknown strategy: "
UnknownStrategyPrefix == <<"U","n","k","n","o","w","n"," ","s","t","r","a","t","e","g","y",":"," ">>

\* `${strategy}` as text
StrategyText(strategy) ==
    CASE strategy = "rebase" -> <<"r","e","b","a","s","e">>
      [] strategy = "merge" -> <<"m","e","r","g","e">>
      [] strategy = "fast-forward" -> <<"f","a","s","t","-","f","o","r","w","a","r","d">>
      [] OTHER -> <<"i","n","v","a","l","i","d">>

\* String.prototype.includes
Includes(text, needle) ==
    \E i \in 1..(Len(text) - Len(needle) + 1) : SubSeq(text, i, i + Len(needle) - 1) = needle

----------------------------------------------------------------------------
(* The command port: executeGitCommand *)

\* execSync returned: { stdout: stdout.trim(), success: true }
Ok(out) == [success |-> TRUE, stdout |-> out, error |-> NoText]

\* execSync threw: { stdout: "", success: false, error: stderr || message }
Fail(err) == [success |-> FALSE, stdout |-> <<>>, error |-> err]

\* outcomes of a command whose output is not read
PlainResults == {Ok(<<>>), Fail(ErrCommand)}

\* git branch --show-current: a branch name, the empty string on a detached HEAD
CurrentBranchResults ==
    {[success |-> TRUE, stdout |-> b, error |-> NoText] : b \in Branches \cup {EmptyString}}
        \cup {[success |-> FALSE, stdout |-> EmptyString, error |-> ErrCommand]}

\* git branch --list "<name>": the lines of the trimmed output, the branch that
\* is checked out being marked with "* "
BranchListResults(name) == {Ok(<<>>), Ok(<<name>>), Ok(<<"* " \o name>>), Fail(ErrCommand)}

\* git ls-remote --heads origin <name>: one line per matching remote head
LsRemoteResults(name) == {Ok(<<>>), Ok(<<name>>), Fail(ErrCommand)}

\* git status --porcelain: one line per changed path
StatusResults == {Ok(<<>>), Ok(<<"M modified-file.txt">>), Fail(ErrCommand)}

\* git rev-list --left-right --count: "0\t2", "invalid", or a failure
RevListResults ==
    {Ok(<<"0", "\t", "2">>), Ok(<<"i", "n", "v", "a", "l", "i", "d">>), Fail(ErrCommand)}

\* the sync command of each strategy and the ways it fails
SyncErrors(strategy) ==
    IF strategy = "fast-forward"
    THEN {ErrNotFastForward, ErrNotFastForwardLower, ErrCommand}
    ELSE {ErrConflict, ErrCommand}

SyncResults(strategy) == {Ok(<<>>)} \cup {Fail(e) : e \in SyncErrors(strategy)}

\* git diff --name-only --diff-filter=U: the unmerged paths, each once, in path order
RECURSIVE SortedFiles(_, _)
SortedFiles(set, i) ==
    IF i > MaxFiles THEN <<>>
    ELSE (IF FileName(i) \in set THEN <<FileName(i)>> ELSE <<>>) \o SortedFiles(set, i + 1)

FileSets == SUBSET {FileName(i) : i \in 1..MaxFiles}

UnmergedResults(paths) == {Ok(SortedFiles(paths, 1)), Fail(ErrCommand)}

\* git branch --show-current at the end: on the target branch, or detached by a
\* rebase that is still in progress
FinalBranchResults(target) ==
    {[success |-> TRUE, stdout |-> b, error |-> NoText] : b \in {target, EmptyString}}
        \cup {[success |-> FALSE, stdout |-> EmptyString, error |-> ErrCommand]}

\* git rebase --continue / git commit --no-edit
ContinueResults == {Ok(<<>>), Fail(ErrCommand), Fail(ErrConflict)}

\* the history of the command port after one more call
Exec(cmd, arg, result) == Append(log, [cmd |-> cmd, arg |-> arg, result |-> result])

----------------------------------------------------------------------------
(* Helpers of sync-work.ts *)

NoResult == [success |-> FALSE, error |-> NoText]

NoVerdict == [kind |-> "none", message |-> <<"", NoText>>, steps |-> <<>>,
              warnings |-> <<>>, conflicts |-> <<>>]

Truthy(s) == s \notin {Undefined, Null, EmptyString}

GetCurrentBranch(result) == IF result.success THEN result.stdout ELSE Null

\* the white space and the line terminators that String.prototype.trim and
\* parseInt skip: space, tab, line feed, carriage return, form feed, vertical
\* tab (U+000B), no-break space (U+00A0), U+FEFF and U+1680 (the space
\* separators from U+2000 on and the line terminators U+2028 and U+2029 cannot
\* be written in a string of this language)
WhiteSpace == {" ", "\t", "\n", "\r", "\f", "", " ", "﻿", " "}

\* the text is a sequence of characters or a string
RECURSIVE TrimStart(_)
TrimStart(text) ==
    IF Len(text) > 0 /\ Head(text) \in WhiteSpace THEN TrimStart(Tail(text)) ELSE text

RECURSIVE TrimEnd(_)
TrimEnd(text) ==
    IF Len(text) > 0 /\ Head(SubSeq(text, Len(text), Len(text))) \in WhiteSpace
    THEN TrimEnd(SubSeq(text, 1, Len(text) - 1)) ELSE text

\* String.prototype.trim
Trim(text) == TrimEnd(TrimStart(text))

\* f.trim() as a condition: the line has a character that is not white space
NonBlank(f) == Len(Trim(f)) > 0

\* stdout.trim() as a condition, stdout being the lines of the output
OutputNonBlank(out) == \E i \in 1..Len(out) : NonBlank(out[i])

Lines(out) == {out[i] : i \in 1..Len(out)}

\* remote: result.stdout.trim().length > 0; local: result.stdout.includes(branchName),
\* the name being part of the output when it is part of one of its lines
BranchExists(result, branchName, remote) ==
    IF remote
    THEN result.success /\ OutputNonBlank(result.stdout)
    ELSE result.success
            /\ \E i \in 1..Len(result.stdout) : Includes(result.stdout[i], branchName)

HasConflicts(result) == result.success /\ OutputNonBlank(result.stdout)

\* result.stdout.split("\n").filter(f => f.trim())
GetConflictFiles(result) ==
    IF result.success /\ OutputNonBlank(result.stdout)
    THEN SelectSeq(result.stdout, NonBlank)
    ELSE <<>>

\* mutant: the porcelain output is not looked at
IsWorkingDirectoryCleanIgnoringOutput(result) == result.success

\* result.success && result.stdout.trim() === ""
IsWorkingDirectoryClean(result) == result.success /\ ~OutputNonBlank(result.stdout)

\* a JavaScript number, NaN and undefined
Number(n) == [type |-> "number", value |-> n]
NaN == [type |-> "NaN", value |-> 0]
UndefinedValue == [type |-> "undefined", value |-> 0]

\* String.prototype.split with a one-character separator
RECURSIVE Split(_, _)
Split(text, sep) ==
    IF \E i \in 1..Len(text) : text[i] = sep
    THEN LET i == CHOOSE k \in 1..Len(text) :
                    text[k] = sep /\ \A j \in 1..(k - 1) : text[j] # sep
         IN <<SubSeq(text, 1, i - 1)>> \o Split(SubSeq(text, i + 1, Len(text)), sep)
    ELSE <<text>>

DecimalDigits == {"0", "1", "2", "3", "4", "5", "6", "7", "8", "9"}

DigitValue(c) ==
    CASE c = "0" -> 0 [] c = "1" -> 1 [] c = "2" -> 2 [] c = "3" -> 3 [] c = "4" -> 4
      [] c = "5" -> 5 [] c = "6" -> 6 [] c = "7" -> 7 [] c = "8" -> 8 [] OTHER -> 9

\* the value of the longest prefix of decimal digits, NaN when there is none
RECURSIVE ParseDigits(_, _, _)
ParseDigits(text, value, seen) ==
    IF Len(text) > 0 /\ Head(text) \in DecimalDigits
    THEN ParseDigits(Tail(text), value * 10 + DigitValue(Head(text)), TRUE)
    ELSE IF seen THEN Number(value) ELSE NaN

HexDigits == DecimalDigits \cup {"a", "b", "c", "d", "e", "f", "A", "B", "C", "D", "E", "F"}

HexValue(c) ==
    CASE c \in DecimalDigits -> DigitValue(c)
      [] c \in {"a", "A"} -> 10 [] c \in {"b", "B"} -> 11 [] c \in {"c", "C"} -> 12
      [] c \in {"d", "D"} -> 13 [] c \in {"e", "E"} -> 14 [] OTHER -> 15

\* the value of the longest prefix of hexadecimal digits, NaN when there is none
RECURSIVE ParseHexDigits(_, _, _)
ParseHexDigits(text, value, seen) ==
    IF Len(text) > 0 /\ Head(text) \in HexDigits
    THEN ParseHexDigits(Tail(text), value * 16 + HexValue(Head(text)), TRUE)
    ELSE IF seen THEN Number(value) ELSE NaN

\* parseInt without a radix, after the sign: radix 16 after a prefix 0x or 0X,
\* radix 10 otherwise
ParseUnsigned(t) ==
    IF Len(t) >= 2 /\ Head(t) = "0" /\ Head(Tail(t)) \in {"x", "X"}
    THEN ParseHexDigits(Tail(Tail(t)), 0, FALSE)
    ELSE ParseDigits(t, 0, FALSE)

\* parseInt(n): leading white space, an optional sign, then the digits
ParseInt(token) ==
    LET t == TrimStart(token)
    IN IF Len(t) > 0 /\ Head(t) = "-"
       THEN LET v == ParseUnsigned(Tail(t))
            IN IF v.type = "number" THEN Number(0 - v.value) ELSE v
       ELSE IF Len(t) > 0 /\ Head(t) = "+"
            THEN ParseUnsigned(Tail(t))
            ELSE ParseUnsigned(t)

\* parseInt(n) || 0
ParseIntOrZero(token) ==
    LET v == ParseInt(token)
    IN IF v.type = "NaN" \/ v.value = 0 THEN Number(0) ELSE v

\* mutant: the columns are read as ahead, then behind
GetAheadBehindInfoSwapped(result) ==
    IF result.success /\ Trim(result.stdout) # <<>>
    THEN LET counts == Split(result.stdout, "\t")
         IN [ahead |-> ParseIntOrZero(counts[1]),
             behind |-> IF Len(counts) >= 2
                        THEN ParseIntOrZero(counts[2]) ELSE UndefinedValue]
    ELSE [ahead |-> Number(0), behind |-> Number(0)]

\* const [behind, ahead] = result.stdout.split("\t").map(n => parseInt(n) || 0)
GetAheadBehindInfo(result) ==
    IF result.success /\ Trim(result.stdout) # <<>>
    THEN LET counts == Split(result.stdout, "\t")
         IN [ahead |-> IF Len(counts) >= 2
                       THEN ParseIntOrZero(counts[2]) ELSE UndefinedValue,
             behind |-> ParseIntOrZero(counts[1])]
    ELSE [ahead |-> Number(0), behind |-> Number(0)]

\* afterSync.ahead > 0
GreaterThanZero(v) == v.type = "number" /\ v.value > 0

----------------------------------------------------------------------------
(* performSync, handleAutoResolve, continueSyncOperation: the command each  *)
(* one chooses and the result it returns                                    *)

NoCommand == "none"

\* the command of each case of the switch in performSync
SyncCommand(strategy) ==
    CASE strategy = "fast-forward" -> "git merge --ff-only"
      [] strategy = "merge" -> "git merge --no-ff"
      [] strategy = "rebase" -> "git rebase"
      [] OTHER -> NoCommand

\* the step performSync records when the command succeeded
SyncStep(strategy) ==
    CASE strategy = "fast-forward" -> "Fast-forwarded"
      [] strategy = "merge" -> "Merged"
      [] OTHER -> "Rebased"

\* what performSync returns once its command returned `result`
PerformSyncResult(strategy, result) ==
    IF SyncCommand(strategy) = NoCommand
    THEN [success |-> FALSE, error |-> UnknownStrategyPrefix \o StrategyText(strategy)]
    ELSE IF strategy = "fast-forward" /\ ~result.success
                /\ Includes(result.error, NotPossibleToFastForward)
         THEN [success |-> FALSE, error |-> FastForwardNotPossible]
         ELSE [success |-> result.success, error |-> result.error]

\* syncWork line 164: the conflict branch is entered
ConflictsDetected(sync, query) == ~sync.success /\ HasConflicts(query)

\* syncWork line 167: conflicts are resolved automatically
WantsAutoResolve(autoResolve, files) == Truthy(autoResolve) /\ Len(files) > 0

\* mutant: the sides are swapped
ResolveCommandSwapped(autoResolve) ==
    CASE autoResolve = "ours" -> "git checkout --theirs"
      [] autoResolve = "theirs" -> "git checkout --ours"
      [] autoResolve = "smart" -> "git checkout --theirs"
      [] OTHER -> "none"

\* the command of each case of the switch in handleAutoResolve
\* (attemptSmartResolve runs git checkout --theirs)
ResolveCommand(autoResolve) ==
    CASE autoResolve = "ours" -> "git checkout --ours"
      [] autoResolve = "theirs" -> "git checkout --theirs"
      [] autoResolve = "smart" -> "git checkout --theirs"
      [] OTHER -> NoCommand

\* return { success: resolvedCount > 0 }
HandleAutoResolveSuccess(count) == count > 0

\* the command of each case of the switch in continueSyncOperation
ContinueCommand(strategy) ==
    CASE strategy = "rebase" -> "git rebase --continue"
      [] strategy = "merge" -> "git commit --no-edit"
      [] OTHER -> NoCommand

ContinueStep(strategy) ==
    IF strategy = "rebase" THEN "Continued rebase after conflict resolution"
    ELSE "Completed merge after conflict resolution"

\* mutant: the result of the continuation is not looked at
ContinueFailedIgnored(result) == FALSE

\* if (!continueResult.success) throw
ContinueFailed(result) == ~result.success

\* forcePush && afterSync.ahead > 0
WantsForcePush(forcePush, info) == forcePush /\ GreaterThanZero(info.ahead)

\* the catch block of syncWork
FailureVerdict(message, st, cf) ==
    [kind |-> "failure", message |-> message, steps |-> st, warnings |-> <<>>,
     conflicts |-> cf]

\* the report returned for manual resolution
ConflictVerdict(target, st, cf) ==
    [kind |-> "conflicts", message |-> <<"Sync conflicts detected in branch", target>>,
     steps |-> st, warnings |-> <<>>, conflicts |-> cf]

\* the report returned after a sync
SuccessVerdict(target, st, wn, cf) ==
    [kind |-> "success", message |-> <<"Successfully synced branch", target>>,
     steps |-> st, warnings |-> wn, conflicts |-> cf]

----------------------------------------------------------------------------
(* The tools at rest: the state of a tool that has not been invoked *)

\* no value of { ahead, behind } yet
NoInfo == [ahead |-> UndefinedValue, behind |-> UndefinedValue]

SyncWorkIdle ==
    /\ pc = "idle"
    /\ args = [targetBranch |-> Undefined, withBranch |-> Undefined, strategy |-> Undefined,
               autoResolve |-> Undefined, forcePush |-> FALSE]
    /\ steps = <<>>
    /\ warnings = <<>>
    /\ conflicts = <<>>
    /\ currentBranch = Undefined
    /\ actualTargetBranch = Undefined
    /\ syncResult = NoResult
    /\ fileIdx = 0
    /\ resolveResult = NoResult
    /\ resolvedCount = 0
    /\ afterSync = NoInfo
    /\ log = <<>>
    /\ unmerged = {}
    /\ verdict = NoVerdict

\* getAheadBehindInfo is not being checked on its own
CountIdle == countResult = NoResult /\ countInfo = NoInfo

\* analyzeFileConflicts is not being checked on its own
ParseIdle == content = <<>> /\ analysis = NoResult

\* no block has been classified, previewed or resolved yet
NoChoice == [resolution |-> <<>>, strategy |-> Undefined]
NoPreview == [resolved |-> -1, strategy |-> <<>>]
NoApplied == [resolved |-> -1, strategy |-> <<>>, written |-> FALSE, content |-> <<>>]

ClassifyIdle == blockOurs = <<>> /\ blockTheirs = <<>> /\ blockChoice = NoChoice

SmartFileIdle ==
    smartPreview = NoPreview /\ smartApplied = NoApplied /\ smartReparse = NoResult

\* neither the rule chain nor the smart resolution of a file is being checked
SmartIdle == ClassifyIdle /\ SmartFileIdle

OwNoVerdict ==
    [kind |-> "none", message |-> <<"", NoText>>, steps |-> <<>>, warnings |-> <<>>]

OrchestrateWorkflowIdle ==
    /\ owPc = "idle"
    /\ owArgs = [workflow |-> Undefined, ticket |-> Undefined, branchName |-> Undefined,
                 targetBranch |-> Undefined, skipTests |-> FALSE, dryRun |-> FALSE]
    /\ owSteps = <<>>
    /\ owWarnings = <<>>
    /\ owPlatform = Undefined
    /\ owBranch = Undefined
    /\ owPr = UndefinedValue
    /\ owMerged = <<>>
    /\ owIdx = 0
    /\ owLog = <<>>
    /\ owVerdict = OwNoVerdict
    /\ owError = <<"", NoText>>

NoResolveResult == [resolved |-> 0, strategy |-> <<>>]

NoConflictState == [inMerge |-> FALSE, inRebase |-> FALSE, inCherryPick |-> FALSE]

RcNoVerdict ==
    [kind |-> "none", message |-> <<"", NoText>>, steps |-> <<>>, warnings |-> <<>>,
     state |-> NoCommand, resolved |-> 0, total |-> 0, details |-> <<>>]

ResolveConflictsIdle ==
    /\ rcPc = "idle"
    /\ rcArgs = [action |-> Undefined, strategy |-> Undefined, files |-> <<>>,
                 backupChanges |-> FALSE, continueOperation |-> FALSE, previewOnly |-> FALSE]
    /\ rcSteps = <<>>
    /\ rcWarnings = <<>>
    /\ conflictedFiles = <<>>
    /\ rcFileIdx = 0
    /\ rcResolveResult = NoResolveResult
    /\ totalResolved = 0
    /\ resolutionDetails = <<>>
    /\ conflictState = NoConflictState
    /\ rcEntries = <<>>
    /\ rcLog = <<>>
    /\ fileLog = <<>>
    /\ rcVerdict = RcNoVerdict

PbNoVerdict ==
    [kind |-> "none", message |-> <<"", NoText>>, steps |-> <<>>, warnings |-> <<>>,
     finalBranch |-> Undefined]

PrepareBranchIdle ==
    /\ pbPc = "idle"
    /\ pbArgs = [branch |-> Undefined, base |-> Undefined, action |-> Undefined,
                 syncStrategy |-> Undefined, stashChanges |-> FALSE, pushToRemote |-> FALSE]
    /\ pbSteps = <<>>
    /\ pbWarnings = <<>>
    /\ stashCreated = FALSE
    /\ pbError = <<"", NoText>>
    /\ pbLog = <<>>
    /\ pbVerdict = PbNoVerdict

----------------------------------------------------------------------------
(* syncWork *)

Init ==
    /\ pc = "gitCheck"
    /\ args \in [targetBranch : {"target-branch", Undefined},
                 withBranch : {WithBranch},
                 strategy : Strategies,
                 autoResolve : AutoResolveStrategies \cup {Undefined},
                 forcePush : BOOLEAN]
    /\ steps = <<>>
    /\ warnings = <<>>
    /\ conflicts = <<>>
    /\ currentBranch = Undefined
    /\ actualTargetBranch = Undefined
    /\ syncResult = NoResult
    /\ fileIdx = 0
    /\ resolveResult = NoResult
    /\ resolvedCount = 0
    /\ afterSync = NoInfo
    /\ log = <<>>
    /\ unmerged = {}
    /\ verdict = NoVerdict
    /\ CountIdle
    /\ ParseIdle
    /\ ResolveConflictsIdle
    /\ PrepareBranchIdle
    /\ OrchestrateWorkflowIdle
    /\ SmartIdle

\* throw new Error(message), caught at line 229
Throw(message) ==
    /\ pc' = "done"
    /\ verdict' = FailureVerdict(message, steps, conflicts)

\* lines 107-111
GitCheck ==
    /\ pc = "gitCheck"
    /\ \E r \in PlainResults :
        /\ log' = Exec("git rev-parse --git-dir", "", r)
        /\ IF ~r.success
           THEN Throw(<<"Not in a git repository", NoText>>)
           ELSE pc' = "currentBranch" /\ UNCHANGED verdict
    /\ UNCHANGED <<args, steps, warnings, conflicts, currentBranch, actualTargetBranch,
                   syncResult, fileIdx, resolveResult, resolvedCount, afterSync, unmerged>>
    /\ UNCHANGED outsideSyncWork

\* lines 113-123
DetermineTarget ==
    /\ pc = "currentBranch"
    /\ \E r \in CurrentBranchResults :
        LET current == GetCurrentBranch(r)
            target == IF Truthy(args.targetBranch) THEN args.targetBranch ELSE current
        IN /\ log' = Exec("git branch --show-current", "", r)
           /\ currentBranch' = current
           /\ actualTargetBranch' = target
           /\ IF ~Truthy(target)
              THEN /\ Throw(<<"Cannot determine target branch (detached HEAD and no branch specified)", NoText>>)
                   /\ UNCHANGED steps
              ELSE /\ steps' = steps \o <<<<"Target branch: ", target>>,
                                          <<"Syncing with: ", args.withBranch>>,
                                          <<"Strategy: ", args.strategy>>>>
                   /\ pc' = "targetExists"
                   /\ UNCHANGED verdict
    /\ UNCHANGED <<args, warnings, conflicts, syncResult, fileIdx, resolveResult,
                   resolvedCount, afterSync, unmerged>>
    /\ UNCHANGED outsideSyncWork

\* lines 126-128
VerifyTargetBranch ==
    /\ pc = "targetExists"
    /\ \E r \in BranchListResults(actualTargetBranch) :
        /\ log' = Exec("git branch --list", actualTargetBranch, r)
        /\ IF ~BranchExists(r, actualTargetBranch, FALSE)
           THEN Throw(<<"Target branch does not exist locally: ", actualTargetBranch>>)
           ELSE pc' = "sourceExists" /\ UNCHANGED verdict
    /\ UNCHANGED <<args, steps, warnings, conflicts, currentBranch, actualTargetBranch,
                   syncResult, fileIdx, resolveResult, resolvedCount, afterSync, unmerged>>
    /\ UNCHANGED outsideSyncWork

\* the test of line 135
NeedsCheckout(current, target) == current # target

\* lines 130-135
VerifySourceBranch ==
    /\ pc = "sourceExists"
    /\ \E r \in LsRemoteResults(args.withBranch) :
        /\ log' = Exec("git ls-remote --heads origin", args.withBranch, r)
        /\ IF ~BranchExists(r, args.withBranch, TRUE)
           THEN Throw(<<"Source branch does not exist on remote: ", args.withBranch>>)
           ELSE /\ pc' = IF NeedsCheckout(currentBranch, actualTargetBranch)
                         THEN "checkClean" ELSE "fetch"
                /\ UNCHANGED verdict
    /\ UNCHANGED <<args, steps, warnings, conflicts, currentBranch, actualTargetBranch,
                   syncResult, fileIdx, resolveResult, resolvedCount, afterSync, unmerged>>
    /\ UNCHANGED outsideSyncWork

\* lines 136-138
CheckClean ==
    /\ pc = "checkClean"
    /\ \E r \in StatusResults :
        /\ log' = Exec("git status --porcelain", "", r)
        /\ IF ~IsWorkingDirectoryClean(r)
           THEN Throw(<<"Working directory not clean. Commit or stash changes before switching branches.", NoText>>)
           ELSE pc' = "checkout" /\ UNCHANGED verdict
    /\ UNCHANGED <<args, steps, warnings, conflicts, currentBranch, actualTargetBranch,
                   syncResult, fileIdx, resolveResult, resolvedCount, afterSync, unmerged>>
    /\ UNCHANGED outsideSyncWork

\* lines 140-145
Checkout ==
    /\ pc = "checkout"
    /\ \E r \in PlainResults :
        /\ log' = Exec("git checkout", actualTargetBranch, r)
        /\ IF r.success
           THEN /\ steps' = Append(steps, <<"Checked out target branch: ", actualTargetBranch>>)
                /\ pc' = "fetch"
                /\ UNCHANGED verdict
           ELSE /\ Throw(<<"Failed to checkout target branch: ", r.error>>)
                /\ UNCHANGED steps
    /\ UNCHANGED <<args, warnings, conflicts, currentBranch, actualTargetBranch,
                   syncResult, fileIdx, resolveResult, resolvedCount, afterSync, unmerged>>
    /\ UNCHANGED outsideSyncWork

\* lines 148-154
Fetch ==
    /\ pc = "fetch"
    /\ \E r \in PlainResults :
        /\ log' = Exec("git fetch origin", args.withBranch, r)
        /\ IF r.success
           THEN /\ steps' = Append(steps, <<"Fetched latest updates from origin/", args.withBranch>>)
                /\ pc' = "beforeSync"
                /\ UNCHANGED verdict
           ELSE /\ Throw(<<"Failed to fetch updates: ", r.error>>)
                /\ UNCHANGED steps
    /\ UNCHANGED <<args, warnings, conflicts, currentBranch, actualTargetBranch,
                   syncResult, fileIdx, resolveResult, resolvedCount, afterSync, unmerged>>
    /\ UNCHANGED outsideSyncWork

\* lines 156-158
BeforeSync ==
    /\ pc = "beforeSync"
    /\ \E r \in RevListResults :
        /\ log' = Exec("git rev-list --left-right --count", actualTargetBranch, r)
        /\ steps' = Append(steps, <<"Before sync: ", GetAheadBehindInfo(r)>>)
    /\ pc' = "performSync"
    /\ UNCHANGED <<args, warnings, conflicts, currentBranch, actualTargetBranch,
                   syncResult, fileIdx, resolveResult, resolvedCount, afterSync, unmerged, verdict>>
    /\ UNCHANGED outsideSyncWork

\* line 161 and performSync (lines 243-278), up to the test of line 164
PerformSync ==
    /\ pc = "performSync"
    /\ IF SyncCommand(args.strategy) = NoCommand
       THEN /\ syncResult' = PerformSyncResult(args.strategy, NoResult)
            /\ unmerged' \in FileSets
            /\ UNCHANGED <<log, steps>>
       ELSE \E r \in SyncResults(args.strategy) :
            /\ log' = Exec(SyncCommand(args.strategy), args.withBranch, r)
            /\ syncResult' = PerformSyncResult(args.strategy, r)
            /\ unmerged' \in IF r.success THEN {{}} ELSE FileSets
            /\ steps' = IF r.success
                        THEN Append(steps, <<SyncStep(args.strategy), actualTargetBranch>>)
                        ELSE steps
    /\ pc' = IF syncResult'.success THEN "afterSync" ELSE "hasConflicts"
    /\ UNCHANGED <<args, warnings, conflicts, currentBranch, actualTargetBranch,
                   fileIdx, resolveResult, resolvedCount, afterSync, verdict>>
    /\ UNCHANGED outsideSyncWork

\* line 164: hasConflicts(), and line 195 when there are none
DetectConflicts ==
    /\ pc = "hasConflicts"
    /\ \E r \in UnmergedResults(unmerged) :
        /\ log' = Exec("git diff --name-only --diff-filter=U", "", r)
        /\ IF ConflictsDetected(syncResult, r)
           THEN pc' = "getConflictFiles" /\ UNCHANGED verdict
           ELSE Throw(<<"Sync failed: ", syncResult.error>>)
    /\ UNCHANGED <<args, steps, warnings, conflicts, currentBranch, actualTargetBranch,
                   syncResult, fileIdx, resolveResult, resolvedCount, afterSync, unmerged>>
    /\ UNCHANGED outsideSyncWork

\* lines 165-167 and the manual-resolution report of lines 176-193
CollectConflicts ==
    /\ pc = "getConflictFiles"
    /\ \E r \in UnmergedResults(unmerged) :
        LET files == GetConflictFiles(r)
        IN /\ log' = Exec("git diff --name-only --diff-filter=U", "", r)
           /\ conflicts' = files
           /\ IF WantsAutoResolve(args.autoResolve, files)
              THEN /\ pc' = "resolveFile"
                   /\ fileIdx' = 1
                   /\ resolvedCount' = 0
                   /\ UNCHANGED verdict
              ELSE /\ pc' = "done"
                   /\ verdict' = ConflictVerdict(actualTargetBranch, steps, files)
                   /\ UNCHANGED <<fileIdx, resolvedCount>>
    /\ UNCHANGED <<args, steps, warnings, currentBranch, actualTargetBranch,
                   syncResult, resolveResult, afterSync, unmerged>>
    /\ UNCHANGED outsideSyncWork

\* mutant: when no file could be resolved the sync command is attempted once more
AfterResolveSyncingAgain(count) ==
    IF HandleAutoResolveSuccess(count) THEN "continue"
    ELSE IF Len(SelectSeq(log, LAMBDA e : e.cmd = SyncCommand(args.strategy))) < 2
    THEN "performSync"
    ELSE "afterSync"

\* where syncWork goes once handleAutoResolve has returned (lines 169-175)
AfterResolve(count) == IF HandleAutoResolveSuccess(count) THEN "continue" ELSE "afterSync"

\* the next iteration of the loop of line 283, or its end
NextFile(idx, count) == IF idx < Len(conflicts) THEN "resolveFile" ELSE AfterResolve(count)

\* lines 283-300 and, when the resolution failed, line 311
ResolveFile ==
    /\ pc = "resolveFile"
    /\ \E r \in IF ResolveCommand(args.autoResolve) = NoCommand
                THEN {Fail(UnknownAutoResolve)} ELSE PlainResults :
        /\ log' = IF ResolveCommand(args.autoResolve) = NoCommand
                  THEN log
                  ELSE Exec(ResolveCommand(args.autoResolve), conflicts[fileIdx], r)
        /\ resolveResult' = [success |-> r.success, error |-> r.error]
        /\ IF r.success
           THEN /\ pc' = "stageFile"
                /\ UNCHANGED <<warnings, fileIdx>>
           ELSE IF args.autoResolve = "smart"
                THEN /\ pc' = "smartFailed"
                     /\ UNCHANGED <<warnings, fileIdx>>
                ELSE /\ warnings' = Append(warnings,
                            <<"Failed to auto-resolve conflict in ", conflicts[fileIdx], r.error>>)
                     /\ pc' = NextFile(fileIdx, resolvedCount)
                     /\ fileIdx' = fileIdx + 1
    /\ UNCHANGED <<args, steps, conflicts, currentBranch, actualTargetBranch,
                   syncResult, resolvedCount, afterSync, unmerged, verdict>>
    /\ UNCHANGED outsideSyncWork

\* line 311, once the await of attemptSmartResolve (line 296) has resumed with
\* a failure
SmartResolveFailed ==
    /\ pc = "smartFailed"
    /\ warnings' = Append(warnings,
            <<"Failed to auto-resolve conflict in ", conflicts[fileIdx], resolveResult.error>>)
    /\ pc' = NextFile(fileIdx, resolvedCount)
    /\ fileIdx' = fileIdx + 1
    /\ UNCHANGED <<args, steps, conflicts, currentBranch, actualTargetBranch, syncResult,
                   resolveResult, resolvedCount, afterSync, unmerged, log, verdict>>
    /\ UNCHANGED outsideSyncWork

\* lines 302-309
StageFile ==
    /\ pc = "stageFile"
    /\ \E r \in PlainResults :
        /\ log' = Exec("git add", conflicts[fileIdx], r)
        /\ IF r.success
           THEN /\ resolvedCount' = resolvedCount + 1
                /\ steps' = Append(steps, <<"Auto-resolved conflict in ", conflicts[fileIdx],
                                            args.autoResolve>>)
                /\ unmerged' = unmerged \ {conflicts[fileIdx]}
                /\ UNCHANGED warnings
           ELSE /\ warnings' = Append(warnings,
                        <<"Resolved conflict but failed to stage: ", conflicts[fileIdx], r.error>>)
                /\ UNCHANGED <<resolvedCount, steps, unmerged>>
    /\ pc' = NextFile(fileIdx, resolvedCount')
    /\ fileIdx' = fileIdx + 1
    /\ UNCHANGED <<args, conflicts, currentBranch, actualTargetBranch,
                   syncResult, resolveResult, afterSync, verdict>>
    /\ UNCHANGED outsideSyncWork

\* continueSyncOperation (lines 329-356), awaited at line 171
ContinueSync ==
    /\ pc = "continue"
    /\ IF ContinueCommand(args.strategy) = NoCommand
       THEN /\ pc' = "afterSync"
            /\ UNCHANGED <<log, steps, verdict>>
       ELSE \E r \in ContinueResults :
            /\ log' = Exec(ContinueCommand(args.strategy), "", r)
            /\ steps' = IF r.success
                        THEN Append(steps, <<ContinueStep(args.strategy), "">>)
                        ELSE steps
            /\ pc' = IF ContinueFailed(r) THEN "continueFailed" ELSE "afterSync"
            /\ UNCHANGED verdict
    /\ UNCHANGED <<args, warnings, conflicts, currentBranch, actualTargetBranch,
                   syncResult, fileIdx, resolveResult, resolvedCount, afterSync, unmerged>>
    /\ UNCHANGED outsideSyncWork

\* lines 172-174, once the await of line 171 has resumed with a failure: the
\* error is the error of the continuation command
ContinueSyncFailed ==
    /\ pc = "continueFailed"
    /\ Throw(<<"Failed to continue sync after conflict resolution: ",
               log[Len(log)].result.error>>)
    /\ UNCHANGED <<args, steps, warnings, conflicts, currentBranch, actualTargetBranch,
                   syncResult, fileIdx, resolveResult, resolvedCount, afterSync, unmerged, log>>
    /\ UNCHANGED outsideSyncWork

\* lines 198-203
AfterSync ==
    /\ pc = "afterSync"
    /\ \E r \in RevListResults :
        /\ log' = Exec("git rev-list --left-right --count", actualTargetBranch, r)
        /\ afterSync' = GetAheadBehindInfo(r)
        /\ steps' = Append(steps, <<"After sync: ", GetAheadBehindInfo(r)>>)
        /\ pc' = IF WantsForcePush(args.forcePush, GetAheadBehindInfo(r))
                 THEN "forcePush" ELSE "finalBranch"
    /\ UNCHANGED <<args, warnings, conflicts, currentBranch, actualTargetBranch,
                   syncResult, fileIdx, resolveResult, resolvedCount, unmerged, verdict>>
    /\ UNCHANGED outsideSyncWork

\* lines 204-209
ForcePush ==
    /\ pc = "forcePush"
    /\ \E r \in PlainResults :
        /\ log' = Exec("git push --force-with-lease origin", actualTargetBranch, r)
        /\ IF r.success
           THEN /\ steps' = Append(steps, <<"Force pushed changes to origin/", actualTargetBranch>>)
                /\ UNCHANGED warnings
           ELSE /\ warnings' = Append(warnings, <<"Failed to force push: ", r.error>>)
                /\ UNCHANGED steps
    /\ pc' = "finalBranch"
    /\ UNCHANGED <<args, conflicts, currentBranch, actualTargetBranch,
                   syncResult, fileIdx, resolveResult, resolvedCount, afterSync, unmerged, verdict>>
    /\ UNCHANGED outsideSyncWork

\* lines 212-227
Finish ==
    /\ pc = "finalBranch"
    /\ \E r \in FinalBranchResults(actualTargetBranch) :
        /\ log' = Exec("git branch --show-current", "", r)
    /\ verdict' = SuccessVerdict(actualTargetBranch, steps, warnings, conflicts)
    /\ pc' = "done"
    /\ UNCHANGED <<args, steps, warnings, conflicts, currentBranch, actualTargetBranch,
                   syncResult, fileIdx, resolveResult, resolvedCount, afterSync, unmerged>>
    /\ UNCHANGED outsideSyncWork

Next ==
    \/ GitCheck
    \/ DetermineTarget
    \/ VerifyTargetBranch
    \/ VerifySourceBranch
    \/ CheckClean
    \/ Checkout
    \/ Fetch
    \/ BeforeSync
    \/ PerformSync
    \/ DetectConflicts
    \/ CollectConflicts
    \/ ResolveFile
    \/ SmartResolveFailed
    \/ StageFile
    \/ ContinueSync
    \/ ContinueSyncFailed
    \/ AfterSync
    \/ ForcePush
    \/ Finish

Spec == Init /\ [][Next]_vars

\* every call of the command port returns, so an invocation that can take a
\* step takes one
FairSpec == Spec /\ WF_vars(Next)

----------------------------------------------------------------------------
(* getAheadBehindInfo on its own: the count command has returned, the       *)
(* function is applied to what it returned                                  *)

\* the largest count the count command reports
MaxCount == 11

\* String(n) for a natural number
RECURSIVE DecimalString(_)
DecimalString(n) ==
    LET digit == CASE n % 10 = 0 -> "0" [] n % 10 = 1 -> "1" [] n % 10 = 2 -> "2"
                   [] n % 10 = 3 -> "3" [] n % 10 = 4 -> "4" [] n % 10 = 5 -> "5"
                   [] n % 10 = 6 -> "6" [] n % 10 = 7 -> "7" [] n % 10 = 8 -> "8"
                   [] OTHER -> "9"
    IN IF n < 10 THEN <<digit>> ELSE DecimalString(n \div 10) \o <<digit>>

\* the output of git rev-list --left-right --count for l commits only on the
\* left side and r commits only on the right side
CountOutput(l, r) == DecimalString(l) \o <<"\t">> \o DecimalString(r)

WellFormedCounts == {CountOutput(l, r) : l, r \in 0..MaxCount}

\* outputs that are not two counts: nothing, one token, tokens that are no numbers
MalformedCounts ==
    {<<>>, <<"5">>, <<"i", "n", "v", "a", "l", "i", "d">>,
     <<"x", "\t", "2">>, <<"2", "\t", "x">>, <<"x", "\t", "y">>}

CountResults ==
    {Ok(out) : out \in WellFormedCounts \cup MalformedCounts} \cup {Fail(ErrCommand)}

CountInit ==
    /\ countResult \in CountResults
    /\ countInfo = NoInfo
    /\ SyncWorkIdle
    /\ ParseIdle
    /\ ResolveConflictsIdle
    /\ PrepareBranchIdle
    /\ OrchestrateWorkflowIdle
    /\ SmartIdle

\* lines 86-91, once the command has returned
AheadBehind ==
    /\ countInfo = NoInfo
    /\ countInfo' = GetAheadBehindInfo(countResult)
    /\ UNCHANGED <<countResult, syncVars, parseVars, rcVars, pbVars, smartVars, owVars>>

CountNext == AheadBehind

CountSpec == CountInit /\ [][CountNext]_vars

----------------------------------------------------------------------------
(* analyzeFileConflicts (src/src/tools/resolve-conflicts.ts) on its own: a  *)
(* file is a sequence of lines, a line a sequence of characters, and line   *)
(* numbers count from 0 as in the code                                      *)

\* the number of lines of the longest file
MaxLines == 6

\* "<<<<<<<", "=======", ">>>>>>>"
StartMarker == <<"<", "<", "<", "<", "<", "<", "<">>
MiddleMarker == <<"=", "=", "=", "=", "=", "=", "=">>
EndMarker == <<">", ">", ">", ">", ">", ">", ">">>

\* the lines a file is made of: "<<<<<<< HEAD", "=======", ">>>>>>> main", "a"
FileLines ==
    {StartMarker \o <<" ", "H", "E", "A", "D">>,
     MiddleMarker,
     EndMarker \o <<" ", "m", "a", "i", "n">>,
     <<"a">>}

\* content.split("\n") of every file of at most MaxLines lines
FileContents == UNION {[1..n -> FileLines] : n \in 0..MaxLines}

\* String.prototype.startsWith
StartsWith(text, prefix) ==
    Len(text) >= Len(prefix) /\ SubSeq(text, 1, Len(prefix)) = prefix

\* lines[i]
LineAt(lines, i) == lines[i + 1]

\* lines.slice(from, to)
Slice(lines, from, to) == SubSeq(lines, from + 1, to)

\* lines.join("\n")
RECURSIVE Join(_)
Join(lines) ==
    IF Len(lines) = 0 THEN <<>>
    ELSE IF Len(lines) = 1 THEN lines[1]
    ELSE lines[1] \o <<"\n">> \o Join(Tail(lines))

\* mutant: the scan for the end marker does not stop at the first one
FindMarkersLastEnd(lines, j, middle) ==
    LET middles == {k \in j..(Len(lines) - 1) : StartsWith(LineAt(lines, k), MiddleMarker)}
        ends == {k \in j..(Len(lines) - 1) : StartsWith(LineAt(lines, k), EndMarker)}
    IN [middle |-> IF middles = {} THEN middle
                   ELSE CHOOSE k \in middles : \A other \in middles : k <= other,
        end |-> IF ends = {} THEN -1
                ELSE CHOOSE k \in ends : \A other \in ends : k >= other]

\* the loop of lines 96-103: the values of middle and end when it ends
RECURSIVE FindMarkers(_, _, _)
FindMarkers(lines, j, middle) ==
    IF j >= Len(lines) THEN [middle |-> middle, end |-> -1]
    ELSE IF StartsWith(LineAt(lines, j), MiddleMarker) /\ middle = -1
         THEN FindMarkers(lines, j + 1, j)
         ELSE IF StartsWith(LineAt(lines, j), EndMarker)
              THEN [middle |-> middle, end |-> j]
              ELSE FindMarkers(lines, j + 1, middle)

\* mutant: a block is emitted without a middle marker
BlockFoundWithoutMiddle(middle, end) == end # -1

\* line 105: middle !== -1 && end !== -1
BlockFound(middle, end) == middle # -1 /\ end # -1

\* mutant: the block carries line numbers that count from 1
ConflictBlockOneBased(lines, start, middle, end) ==
    [start |-> start + 1,
     end |-> end + 1,
     oursContent |-> Join(Slice(lines, start + 1, middle)),
     theirsContent |-> Join(Slice(lines, middle + 1, end))]

\* lines 106-114: the block that is pushed
ConflictBlock(lines, start, middle, end) ==
    [start |-> start,
     end |-> end,
     oursContent |-> Join(Slice(lines, start + 1, middle)),
     theirsContent |-> Join(Slice(lines, middle + 1, end))]

\* the loop of lines 88-123: the blocks pushed from line i on
RECURSIVE ScanLines(_, _)
ScanLines(lines, i) ==
    IF i >= Len(lines) THEN <<>>
    ELSE IF StartsWith(LineAt(lines, i), StartMarker)
         THEN LET found == FindMarkers(lines, i + 1, -1)
              IN IF BlockFound(found.middle, found.end)
                 THEN <<ConflictBlock(lines, i, found.middle, found.end)>>
                          \o ScanLines(lines, found.end + 1)
                 ELSE ScanLines(lines, i + 1)
         ELSE ScanLines(lines, i + 1)

\* analyzeFileConflicts, once the file has been read and split into lines
AnalyzeFileConflicts(lines) ==
    LET found == ScanLines(lines, 0)
    IN [conflictBlocks |-> found, totalConflicts |-> Len(found)]

ParseInit ==
    /\ content \in FileContents
    /\ analysis = NoResult
    /\ SyncWorkIdle
    /\ CountIdle
    /\ ResolveConflictsIdle
    /\ PrepareBranchIdle
    /\ OrchestrateWorkflowIdle
    /\ SmartIdle

\* lines 79-128
Analyze ==
    /\ analysis = NoResult
    /\ analysis' = AnalyzeFileConflicts(content)
    /\ UNCHANGED <<content, syncVars, countVars, rcVars, pbVars, smartVars, owVars>>

ParseNext == Analyze

ParseSpec == ParseInit /\ [][ParseNext]_vars

----------------------------------------------------------------------------
(* applySmartResolution (src/src/tools/resolve-conflicts.ts): the rule      *)
(* chain applied to the blocks of a file, from the last block to the first  *)

\* the characters of the modelled texts, in the order of their code units
CodeUnits ==
    <<"\t", "\n", " ", "\"", "#", "-", ".", "0", "1", "2", "3", "4", "5", "6", "7", "8",
      "9", "<", "=", ">", "A", "B", "C", "D", "E", "F", "G", "H", "I", "J", "K", "L", "M",
      "N", "O", "P", "Q", "R", "S", "T", "U", "V", "W", "X", "Y", "Z", "a", "b", "c", "d",
      "e", "f", "g", "h", "i", "j", "k", "l", "m", "n", "o", "p", "q", "r", "s", "t", "u",
      "v", "w", "x", "y", "z">>

CodeUnit(c) == CHOOSE i \in 1..Len(CodeUnits) : CodeUnits[i] = c

\* a < b as Array.prototype.sort compares strings: by code units, a prefix first
RECURSIVE TextBefore(_, _)
TextBefore(a, b) ==
    IF b = <<>> THEN FALSE
    ELSE IF a = <<>> THEN TRUE
    ELSE IF Head(a) = Head(b) THEN TextBefore(Tail(a), Tail(b))
    ELSE CodeUnit(Head(a)) < CodeUnit(Head(b))

\* [...set].sort()
RECURSIVE SortTexts(_)
SortTexts(set) ==
    IF set = {} THEN <<>>
    ELSE LET first == CHOOSE a \in set : \A b \in set \ {a} : TextBefore(a, b)
         IN <<first>> \o SortTexts(set \ {first})

\* text.split("\n")
SplitLines(text) == Split(text, "\n")

\* "import", "require", "from", "#include"
ImportWords ==
    {<<"i", "m", "p", "o", "r", "t">>, <<"r", "e", "q", "u", "i", "r", "e">>,
     <<"f", "r", "o", "m">>, <<"#", "i", "n", "c", "l", "u", "d", "e">>}

\* the line terminators after which ^ matches under the m flag (U+2028 and
\* U+2029 cannot be written in a string of this language)
LineTerminators == {"\n", "\r"}

\* /^(import|require|from|#include)/m.test(text)
ImportPattern(text) ==
    \E i \in 1..Len(text) :
        /\ i = 1 \/ text[i - 1] \in LineTerminators
        /\ \E w \in ImportWords : StartsWith(SubSeq(text, i, Len(text)), w)

IsImportBlock(ours, theirs) == ImportPattern(ours) /\ ImportPattern(theirs)

\* the non-blank lines of a side
NonBlankLines(text) == SelectSeq(SplitLines(text), LAMBDA l : Trim(l) # <<>>)

\* mutant: the lines of both sides, neither deduplicated nor sorted
MergeImportsConcatenated(ours, theirs) == Join(NonBlankLines(ours) \o NonBlankLines(theirs))

\* [...new Set([...oursLines, ...theirsLines])].sort().join("\n")
MergeImports(ours, theirs) ==
    LET allImports == NonBlankLines(ours) \o NonBlankLines(theirs)
    IN Join(SortTexts({allImports[i] : i \in 1..Len(allImports)}))

DeleteWord == <<"d", "e", "l", "e", "t", "e">>

IsSimpleAddition(ours, theirs) ==
    /\ Len(SplitLines(Trim(ours))) <= 5
    /\ Len(SplitLines(Trim(theirs))) <= 5
    /\ ~Includes(ours, DeleteWord) /\ ~Includes(theirs, DeleteWord)
    /\ ~Includes(ours, <<"-">>) /\ ~Includes(theirs, <<"-">>)

\* \d+
AllDigits(text) == text # <<>> /\ \A i \in 1..Len(text) : text[i] \in DecimalDigits

\* v?\d+\.\d+\.\d+
SemVer(text) ==
    LET t == IF text # <<>> /\ Head(text) = "v" THEN Tail(text) ELSE text
        parts == Split(t, ".")
    IN Len(parts) = 3 /\ \A i \in 1..3 : AllDigits(parts[i])

\* /version|VERSION|"v?\d+\.\d+\.\d+"/.test(text)
VersionPattern(text) ==
    \/ Includes(text, <<"v", "e", "r", "s", "i", "o", "n">>)
    \/ Includes(text, <<"V", "E", "R", "S", "I", "O", "N">>)
    \/ \E i, j \in 1..Len(text) :
         i < j /\ text[i] = "\"" /\ text[j] = "\"" /\ SemVer(SubSeq(text, i + 1, j - 1))

IsVersionConflict(ours, theirs) == VersionPattern(ours) /\ VersionPattern(theirs)

\* mutant: the version rule is tried before the others
SmartResolutionVersionFirst(ours, theirs) ==
    IF IsVersionConflict(ours, theirs)
    THEN [resolution |-> theirs, strategy |-> "theirs (version update)"]
    ELSE IF Trim(ours) = <<>> /\ Trim(theirs) # <<>>
    THEN [resolution |-> theirs, strategy |-> "theirs (ours empty)"]
    ELSE IF Trim(ours) # <<>> /\ Trim(theirs) = <<>>
    THEN [resolution |-> ours, strategy |-> "ours (theirs empty)"]
    ELSE IF Includes(ours, theirs)
    THEN [resolution |-> ours, strategy |-> "ours (includes theirs)"]
    ELSE IF Includes(theirs, ours)
    THEN [resolution |-> theirs, strategy |-> "theirs (includes ours)"]
    ELSE IF IsImportBlock(ours, theirs)
    THEN [resolution |-> MergeImports(ours, theirs), strategy |-> "merged imports"]
    ELSE IF IsSimpleAddition(ours, theirs)
    THEN [resolution |-> ours \o <<"\n">> \o theirs, strategy |-> "combined additions"]
    ELSE [resolution |-> <<>>, strategy |-> ""]

\* lines 152-185: the resolution and the strategy chosen for one block
SmartResolution(ours, theirs) ==
    IF Trim(ours) = <<>> /\ Trim(theirs) # <<>>
    THEN [resolution |-> theirs, strategy |-> "theirs (ours empty)"]
    ELSE IF Trim(ours) # <<>> /\ Trim(theirs) = <<>>
    THEN [resolution |-> ours, strategy |-> "ours (theirs empty)"]
    ELSE IF Includes(ours, theirs)
    THEN [resolution |-> ours, strategy |-> "ours (includes theirs)"]
    ELSE IF Includes(theirs, ours)
    THEN [resolution |-> theirs, strategy |-> "theirs (includes ours)"]
    ELSE IF IsImportBlock(ours, theirs)
    THEN [resolution |-> MergeImports(ours, theirs), strategy |-> "merged imports"]
    ELSE IF IsSimpleAddition(ours, theirs)
    THEN [resolution |-> ours \o <<"\n">> \o theirs, strategy |-> "combined additions"]
    ELSE IF IsVersionConflict(ours, theirs)
    THEN [resolution |-> theirs, strategy |-> "theirs (version update)"]
    ELSE [resolution |-> <<>>, strategy |-> ""]

\* lines.splice(start, end - start + 1, resolution)
Splice(lines, start, end, resolution) ==
    SubSeq(lines, 1, start) \o <<resolution>> \o SubSeq(lines, end + 2, Len(lines))

\* mutant: the blocks are spliced from the first to the last
RECURSIVE ResolveBlocksForward(_, _, _)
ResolveBlocksForward(lines, blocks, i) ==
    IF i < 1 THEN [lines |-> lines, resolved |-> 0, strategy |-> <<>>]
    ELSE LET block == blocks[Len(blocks) - i + 1]
             chosen == SmartResolution(block.oursContent, block.theirsContent)
             spliced == IF chosen.resolution # <<>>
                        THEN Splice(lines, block.start, block.end, chosen.resolution)
                        ELSE lines
             rest == ResolveBlocksForward(spliced, blocks, i - 1)
         IN IF chosen.resolution # <<>>
            THEN [lines |-> rest.lines,
                  resolved |-> rest.resolved + 1,
                  strategy |-> <<<<block.start + 1, chosen.strategy>>>> \o rest.strategy]
            ELSE rest

\* the loop of lines 148-194, from block i down to the first block
RECURSIVE ResolveBlocks(_, _, _)
ResolveBlocks(lines, blocks, i) ==
    IF i < 1 THEN [lines |-> lines, resolved |-> 0, strategy |-> <<>>]
    ELSE LET chosen == SmartResolution(blocks[i].oursContent, blocks[i].theirsContent)
             spliced == IF chosen.resolution # <<>>
                        THEN Splice(lines, blocks[i].start, blocks[i].end, chosen.resolution)
                        ELSE lines
             rest == ResolveBlocks(spliced, blocks, i - 1)
         IN IF chosen.resolution # <<>>
            THEN [lines |-> rest.lines,
                  resolved |-> rest.resolved + 1,
                  strategy |-> <<<<blocks[i].start + 1, chosen.strategy>>>> \o rest.strategy]
            ELSE rest

\* applySmartResolution once the file has been read: what it returns, and the
\* lines of the content it writes when it writes
ApplySmartResolution(lines, blocks) ==
    LET done == ResolveBlocks(lines, blocks, Len(blocks))
    IN [resolved |-> done.resolved,
        strategy |-> done.strategy,
        written |-> done.resolved > 0,
        content |-> SplitLines(Join(done.lines))]

----------------------------------------------------------------------------
(* The rule chain of applySmartResolution on its own: one block, whose two  *)
(* sides are drawn from texts on which the rules overlap                    *)

\* "version 1" and "delete version 1"
VersionOne == <<"v", "e", "r", "s", "i", "o", "n", " ", "1">>
DeleteVersionOne == <<"d", "e", "l", "e", "t", "e", " ">> \o VersionOne

\* what a side of a block can hold
SideTexts ==
    {<<>>,                                                       \* the empty text
     <<" ">>,                                                    \* a blank
     <<"a">>,
     <<"a", "\n", "b">>,
     <<"i", "m", "p", "o", "r", "t", " ", "x">>,                 \* import x
     <<"i", "m", "p", "o", "r", "t", " ", "y", "\n">> \o VersionOne,
     VersionOne,
     <<"\"", "1", ".", "2", ".", "3", "\"">>,                    \* "1.2.3"
     <<"x", "-", "1">>,
     DeleteVersionOne,
     <<"f", "r", "o", "m", " ", "a", "-", "b">>,                 \* from a-b
     <<"p", "\n", "q", "\n", "r", "\n", "s", "\n", "t", "\n", "u">>,
     \* five lines and a blank line between them
     <<"p", "\n", "q", "\n", "\n", "r", "\n", "s", "\n", "t">>}

ClassifyInit ==
    /\ blockOurs \in SideTexts
    /\ blockTheirs \in SideTexts
    /\ blockChoice = NoChoice
    /\ smartPreview = NoPreview
    /\ smartApplied = NoApplied
    /\ smartReparse = NoResult
    /\ SyncWorkIdle
    /\ CountIdle
    /\ ParseIdle
    /\ ResolveConflictsIdle
    /\ PrepareBranchIdle
    /\ OrchestrateWorkflowIdle

\* lines 149-185: one pass of the loop body, up to the test of line 187
Classify ==
    /\ blockChoice = NoChoice
    /\ blockChoice' = SmartResolution(blockOurs, blockTheirs)
    /\ UNCHANGED <<blockOurs, blockTheirs, smartPreview, smartApplied, smartReparse,
                   syncVars, countVars, parseVars, rcVars, pbVars, owVars>>

ClassifyNext == Classify

ClassifySpec == ClassifyInit /\ [][ClassifyNext]_vars

----------------------------------------------------------------------------
(* mergeImports (lines 212-221) on its own: the two sides are drawn from    *)
(* import texts with blank lines, repeated lines and lines out of order,    *)
(* and the result is merged with itself once more                           *)

ImportTexts ==
    {\* the empty text
     <<>>,
     \* blanks only
     <<" ", " ">>,
     \* import x
     <<"i", "m", "p", "o", "r", "t", " ", "x">>,
     \* two imports, out of order, a blank line between them
     <<"i", "m", "p", "o", "r", "t", " ", "y", "\n", "\n", "i", "m", "p", "o", "r", "t",
       " ", "x">>,
     \* the same import twice
     <<"i", "m", "p", "o", "r", "t", " ", "x", "\n", "i", "m", "p", "o", "r", "t", " ",
       "x">>,
     \* from y / import x
     <<"f", "r", "o", "m", " ", "y", "\n", "i", "m", "p", "o", "r", "t", " ", "x">>,
     \* a capital letter sorts before the small letters
     <<"I", "m", "p", "o", "r", "t", " ", "z", "\n", "i", "m", "p", "o", "r", "t", " ",
       "a">>,
     \* import x with a blank behind it
     <<"i", "m", "p", "o", "r", "t", " ", "x", " ">>,
     \* a line that is a prefix of another, and a last empty line
     <<"i", "m", "p", "o", "r", "t", " ", "x", "y", "\n", "i", "m", "p", "o", "r", "t",
       " ", "x", "\n">>}

MergeImportsInit ==
    /\ blockOurs \in ImportTexts
    /\ blockTheirs \in ImportTexts
    /\ blockChoice = NoChoice
    /\ SmartFileIdle
    /\ SyncWorkIdle
    /\ CountIdle
    /\ ParseIdle
    /\ ResolveConflictsIdle
    /\ PrepareBranchIdle
    /\ OrchestrateWorkflowIdle

\* line 173: resolution = mergeImports(oursContent, theirsContent)
MergeSides ==
    /\ blockChoice = NoChoice
    /\ blockChoice' = [resolution |-> MergeImports(blockOurs, blockTheirs),
                       strategy |-> "merged imports"]
    /\ UNCHANGED <<blockOurs, blockTheirs, smartPreview, smartApplied, smartReparse,
                   syncVars, countVars, parseVars, rcVars, pbVars, owVars>>

\* mergeImports applied to its own result on both sides
MergeResult ==
    /\ blockChoice.strategy = "merged imports"
    /\ blockOurs' = blockChoice.resolution
    /\ blockTheirs' = blockChoice.resolution
    /\ blockChoice' = [resolution |-> MergeImports(blockChoice.resolution,
                                                   blockChoice.resolution),
                       strategy |-> "merged imports of the result"]
    /\ UNCHANGED <<smartPreview, smartApplied, smartReparse,
                   syncVars, countVars, parseVars, rcVars, pbVars, owVars>>

MergeImportsNext ==
    \/ MergeSides
    \/ MergeResult

MergeImportsSpec == MergeImportsInit /\ [][MergeImportsNext]_vars

----------------------------------------------------------------------------
(* resolveConflicts (src/src/tools/resolve-conflicts.ts): one invocation.   *)
(* `rcLog` is the history of executeCommand, `fileLog` the history of       *)
(* readFileSync and writeFileSync.                                          *)

RcActions == {"status", "analyze", "auto-resolve", "manual-assist", "abort"}

\* the schema's strategies; "interactive" has no case in the switch of line 444
RcStrategies == {"ours", "theirs", "smart", "interactive"}

\* files: the empty default, or paths named by the caller
RcFileLists == {<<>>, <<FileName(1)>>, <<FileName(2), FileName(1)>>}

\* what a conflicted file can hold when it is read
OursEmptyFile == <<StartMarker \o <<" ", "H", "E", "A", "D">>, MiddleMarker, <<"a">>,
                   EndMarker \o <<" ", "m", "a", "i", "n">>>>

ManualFile == <<StartMarker \o <<" ", "H", "E", "A", "D">>, <<"x", "-", "1">>, MiddleMarker,
                <<"y", "-", "2">>, EndMarker \o <<" ", "m", "a", "i", "n">>>>

BothEmptyFile == <<StartMarker \o <<" ", "H", "E", "A", "D">>, MiddleMarker,
                   EndMarker \o <<" ", "m", "a", "i", "n">>>>

CleanFile == <<<<"a">>>>

WorkingFiles == {OursEmptyFile, ManualFile, OursEmptyFile \o ManualFile, BothEmptyFile, CleanFile}

\* readFileSync returned the lines, or threw
ReadResults == {[success |-> TRUE, lines |-> w] : w \in WorkingFiles}
                   \cup {[success |-> FALSE, lines |-> <<>>]}

\* the four `test` commands of getConflictState, in the order of lines 48-51
StateTests == <<"test -f .git/MERGE_HEAD", "test -d .git/rebase-apply",
                "test -d .git/rebase-merge", "test -f .git/CHERRY_PICK_HEAD">>

StateResults == [1..4 -> PlainResults]

GetConflictState(results) ==
    [inMerge |-> results[1].success,
     inRebase |-> results[2].success \/ results[3].success,
     inCherryPick |-> results[4].success]

\* result.stdout.split("\n").filter(f => f.trim())
GetConflictedFiles(result) ==
    IF result.success /\ OutputNonBlank(result.stdout)
    THEN SelectSeq(result.stdout, NonBlank)
    ELSE <<>>

\* analyzeFileConflicts(file) with its try/catch (lines 78-131)
AnalyzeFile(read) ==
    IF read.success THEN AnalyzeFileConflicts(read.lines)
    ELSE [conflictBlocks |-> <<>>, totalConflicts |-> 0]

\* applySmartResolution(file, blocks) with its try/catch (lines 141-203)
SmartResult(file, read, blocks, writes) ==
    IF ~read.success
    THEN [resolved |-> 0, strategy |-> <<<<"Error processing", file>>>>]
    ELSE LET applied == ApplySmartResolution(read.lines, blocks)
         IN IF applied.written /\ ~writes
            THEN [resolved |-> 0, strategy |-> <<<<"Error processing", file>>>>]
            ELSE [resolved |-> applied.resolved, strategy |-> applied.strategy]

\* lines 473-484: the preview of one block
PreviewHint(block) ==
    IF Trim(block.oursContent) = <<>> /\ Trim(block.theirsContent) # <<>>
    THEN "Would choose theirs (ours empty)"
    ELSE IF Trim(block.oursContent) # <<>> /\ Trim(block.theirsContent) = <<>>
    THEN "Would choose ours (theirs empty)"
    ELSE IF IsImportBlock(block.oursContent, block.theirsContent)
    THEN "Would merge imports"
    ELSE "Would require manual resolution"

\* lines 471-486
PreviewResult(blocks) ==
    [resolved |-> Len(blocks),
     strategy |-> [i \in 1..Len(blocks) |-> <<PreviewHint(blocks[i]), "">>]]

\* lines 364-376: what handleAnalyze says of one block
AnalyzeHint(block) ==
    IF Trim(block.oursContent) = <<>> THEN "Ours empty, theirs has content"
    ELSE IF Trim(block.theirsContent) = <<>> THEN "Theirs empty, ours has content"
    ELSE IF Includes(block.oursContent, block.theirsContent) THEN "Ours includes theirs"
    ELSE IF Includes(block.theirsContent, block.oursContent) THEN "Theirs includes ours"
    ELSE IF IsImportBlock(block.oursContent, block.theirsContent)
    THEN "Import/require statements - can merge"
    ELSE "Complex conflict - manual resolution needed"

\* lines 603-611: what handleManualAssist suggests for one block
AssistHint(block) ==
    IF Trim(block.oursContent) = <<>> THEN "Keep theirs (ours is empty)"
    ELSE IF Trim(block.theirsContent) = <<>> THEN "Keep ours (theirs is empty)"
    ELSE IF IsImportBlock(block.oursContent, block.theirsContent)
    THEN "Merge import statements"
    ELSE "Review both versions carefully"

\* conflictBlocks.slice(0, 3) with the lines and the hint of each block
BlockHints(action, blocks) ==
    [i \in 1..(IF Len(blocks) < 3 THEN Len(blocks) ELSE 3) |->
        <<blocks[i].start + 1, blocks[i].end + 1,
          IF action = "analyze" THEN AnalyzeHint(blocks[i]) ELSE AssistHint(blocks[i])>>]

\* the entry a handler writes for one file; handleStatus writes the count only
FileEntry(action, file, found) ==
    [file |-> file,
     totalConflicts |-> found.totalConflicts,
     hints |-> IF action = "status" THEN <<>> ELSE BlockHints(action, found.conflictBlocks)]

\* the state line of handleStatus (lines 299-307)
StatusState(state) ==
    IF state.inMerge THEN "merge"
    ELSE IF state.inRebase THEN "rebase"
    ELSE IF state.inCherryPick THEN "cherry-pick"
    ELSE NoCommand

\* the command handleAutoResolve continues with (lines 518-539)
RcContinueCommand(state) ==
    IF state.inRebase THEN "git rebase --continue"
    ELSE IF state.inMerge THEN "git commit --no-edit"
    ELSE IF state.inCherryPick THEN "git cherry-pick --continue"
    ELSE NoCommand

\* the command handleManualAssist suggests (lines 623-629)
AssistCommand(state) ==
    IF state.inRebase THEN "git rebase --continue"
    ELSE IF state.inMerge THEN "git commit"
    ELSE IF state.inCherryPick THEN "git cherry-pick --continue"
    ELSE NoCommand

\* the command handleAbort runs (lines 655-662)
AbortCommand(state) ==
    IF state.inRebase THEN "git rebase --abort"
    ELSE IF state.inMerge THEN "git merge --abort"
    ELSE IF state.inCherryPick THEN "git cherry-pick --abort"
    ELSE NoCommand

\* the step and the warning of each continuation
ContinuedStep(cmd) ==
    CASE cmd = "git rebase --continue" -> "Continued rebase operation"
      [] cmd = "git commit --no-edit" -> "Completed merge operation"
      [] OTHER -> "Continued cherry-pick operation"

ContinueWarning(cmd) ==
    CASE cmd = "git rebase --continue" -> "Failed to continue rebase: "
      [] cmd = "git commit --no-edit" -> "Failed to complete merge: "
      [] OTHER -> "Failed to continue cherry-pick: "

\* mutant: the catch block reports no step
RcFailureVerdictWithoutSteps(message, st) ==
    [kind |-> "failure", message |-> message, steps |-> <<>>, warnings |-> <<>>,
     state |-> NoCommand, resolved |-> 0, total |-> 0, details |-> <<>>]

\* the catch block of resolveConflicts (lines 278-288)
RcFailureVerdict(message, st) ==
    [kind |-> "failure", message |-> message, steps |-> st, warnings |-> <<>>,
     state |-> NoCommand, resolved |-> 0, total |-> 0, details |-> <<>>]

\* a report that lists nothing but the steps (lines 642-651, 668-677)
RcReport(label, st, wn) ==
    [kind |-> "report", message |-> <<label, NoText>>, steps |-> st, warnings |-> wn,
     state |-> NoCommand, resolved |-> 0, total |-> 0, details |-> <<>>]

RcExec(cmd, arg, result) == Append(rcLog, [cmd |-> cmd, arg |-> arg, result |-> result])

\* the history of the file system after a read
ReadFile(history, file, read) ==
    Append(history, [op |-> "readFileSync", file |-> file, success |-> read.success,
                     lines |-> read.lines])

\* the history of the file system after a write that did not throw
WriteFile(history, file, lines) ==
    Append(history, [op |-> "writeFileSync", file |-> file, success |-> TRUE,
                     lines |-> lines])

\* the catch block of line 278 on an error of this message
RcThrow(message, st) ==
    /\ rcPc' = "done"
    /\ rcVerdict' = RcFailureVerdict(message, st)

\* the handler of each case of the switch of line 258
RcDispatch(action) ==
    IF action \in {"status", "abort"} THEN "state" ELSE "listFiles"

ResolveConflictsInit ==
    /\ rcPc = "gitCheck"
    /\ rcArgs \in [action : {"auto-resolve"}, strategy : RcStrategies, files : RcFileLists,
                   backupChanges : BOOLEAN, continueOperation : BOOLEAN,
                   previewOnly : BOOLEAN]
                  \cup [action : RcActions \ {"auto-resolve"}, strategy : {"smart"},
                        files : RcFileLists, backupChanges : {TRUE},
                        continueOperation : {TRUE}, previewOnly : {FALSE}]
    /\ rcSteps = <<>>
    /\ rcWarnings = <<>>
    /\ conflictedFiles = <<>>
    /\ rcFileIdx = 0
    /\ rcResolveResult = NoResolveResult
    /\ totalResolved = 0
    /\ resolutionDetails = <<>>
    /\ conflictState = NoConflictState
    /\ rcEntries = <<>>
    /\ rcLog = <<>>
    /\ fileLog = <<>>
    /\ rcVerdict = RcNoVerdict

\* lines 251-255 and the switch of line 258
RcGitCheck ==
    /\ rcPc = "gitCheck"
    /\ \E r \in PlainResults :
        /\ rcLog' = RcExec("git rev-parse --git-dir", "", r)
        /\ IF r.success
           THEN rcPc' = RcDispatch(rcArgs.action) /\ UNCHANGED rcVerdict
           ELSE RcThrow(<<"Not in a git repository", NoText>>, rcSteps)
    /\ UNCHANGED <<rcArgs, rcSteps, rcWarnings, conflictedFiles, rcFileIdx, rcResolveResult,
                   totalResolved, resolutionDetails, conflictState, rcEntries, fileLog>>
    /\ UNCHANGED outsideResolveConflicts

\* where each handler goes once getConflictState has returned
RcAfterState(action) ==
    CASE action = "status" -> "listFiles"
      [] action = "manual-assist" -> "report"
      [] action = "auto-resolve" -> "continue"
      [] OTHER -> "abort"

\* getConflictState (lines 47-58), called at lines 292, 516, 620 and 640
RcConflictState ==
    /\ rcPc = "state"
    /\ \E results \in StateResults :
        /\ rcLog' = rcLog \o [i \in 1..4 |->
                                [cmd |-> StateTests[i], arg |-> "", result |-> results[i]]]
        /\ conflictState' = GetConflictState(results)
    /\ rcPc' = RcAfterState(rcArgs.action)
    /\ UNCHANGED <<rcArgs, rcSteps, rcWarnings, conflictedFiles, rcFileIdx, rcResolveResult,
                   totalResolved, resolutionDetails, rcEntries, fileLog, rcVerdict>>
    /\ UNCHANGED outsideResolveConflicts

\* handleStatus always asks git; the other handlers ask when no file was named
RcQueriesFiles == rcArgs.action = "status" \/ Len(rcArgs.files) = 0

\* the steps a handler records once it knows the files (lines 295, 348, 422-426, 575)
RcListedSteps(files) ==
    CASE rcArgs.action = "status" -> <<<<"Analyzed current conflict state", "">>>>
      [] Len(files) = 0 -> <<>>
      [] rcArgs.action = "analyze" -> <<<<"Analyzing conflicted files", "">>>>
      [] rcArgs.action = "manual-assist" ->
            <<<<"Providing manual resolution assistance", "">>>>
      [] OTHER -> <<<<"Auto-resolving files using strategy", rcArgs.strategy>>>>
                     \o (IF rcArgs.previewOnly
                         THEN <<<<"PREVIEW MODE - No changes will be made", "">>>>
                         ELSE <<>>)

\* mutant: the backup is made in preview mode as well
RcAfterListBackupInPreview(files) ==
    IF Len(files) = 0 THEN "report"
    ELSE IF rcArgs.action # "auto-resolve" THEN "inspectFile"
    ELSE IF rcArgs.backupChanges THEN "backup"
    ELSE "resolveFile"

\* where a handler goes once it knows the files
RcAfterList(files) ==
    IF Len(files) = 0 THEN "report"
    ELSE IF rcArgs.action # "auto-resolve" THEN "inspectFile"
    ELSE IF rcArgs.backupChanges /\ ~rcArgs.previewOnly THEN "backup"
    ELSE "resolveFile"

\* lines 293-295, 335-348, 409-426, 565-575
RcListFiles ==
    /\ rcPc = "listFiles"
    /\ IF RcQueriesFiles
       THEN \E paths \in FileSets : \E r \in UnmergedResults(paths) :
            /\ rcLog' = RcExec("git diff --name-only --diff-filter=U", "", r)
            /\ conflictedFiles' = GetConflictedFiles(r)
       ELSE /\ conflictedFiles' = rcArgs.files
            /\ UNCHANGED rcLog
    /\ rcSteps' = rcSteps \o RcListedSteps(conflictedFiles')
    /\ rcPc' = RcAfterList(conflictedFiles')
    /\ rcFileIdx' = 1
    /\ UNCHANGED <<rcArgs, rcWarnings, rcResolveResult, totalResolved, resolutionDetails,
                   conflictState, rcEntries, fileLog, rcVerdict>>
    /\ UNCHANGED outsideResolveConflicts

\* lines 429-436
RcBackup ==
    /\ rcPc = "backup"
    /\ \E r \in PlainResults :
        /\ rcLog' = RcExec("git stash push", "Backup before conflict resolution", r)
        /\ IF r.success
           THEN /\ rcSteps' = Append(rcSteps, <<"Created backup of current changes", "">>)
                /\ UNCHANGED rcWarnings
           ELSE /\ rcWarnings' = Append(rcWarnings, <<"Failed to create backup", "", <<>>>>)
                /\ UNCHANGED rcSteps
    /\ rcPc' = "resolveFile"
    /\ UNCHANGED <<rcArgs, conflictedFiles, rcFileIdx, rcResolveResult, totalResolved,
                   resolutionDetails, conflictState, rcEntries, fileLog, rcVerdict>>
    /\ UNCHANGED outsideResolveConflicts

RECURSIVE SumConflicts(_, _)
SumConflicts(entries, i) ==
    IF i > Len(entries) THEN 0 ELSE entries[i].totalConflicts + SumConflicts(entries, i + 1)

\* one iteration of the loops of lines 312, 353 and 579, and what follows the last one
RcInspectFile ==
    /\ rcPc = "inspectFile"
    /\ \E read \in ReadResults :
        /\ fileLog' = ReadFile(fileLog, conflictedFiles[rcFileIdx], read)
        /\ rcEntries' = Append(rcEntries, FileEntry(rcArgs.action, conflictedFiles[rcFileIdx],
                                                    AnalyzeFile(read)))
    /\ IF rcFileIdx < Len(conflictedFiles)
       THEN /\ rcFileIdx' = rcFileIdx + 1
            /\ UNCHANGED <<rcPc, rcSteps>>
       ELSE /\ rcPc' = IF rcArgs.action = "manual-assist" THEN "state" ELSE "report"
            /\ rcSteps' = IF rcArgs.action = "analyze"
                          THEN Append(rcSteps, <<"Found conflicts across files",
                                                 SumConflicts(rcEntries', 1)>>)
                          ELSE rcSteps
            /\ UNCHANGED rcFileIdx
    /\ UNCHANGED <<rcArgs, rcWarnings, conflictedFiles, rcResolveResult, totalResolved,
                   resolutionDetails, conflictState, rcLog, rcVerdict>>
    /\ UNCHANGED outsideResolveConflicts

\* mutant: the sides are swapped
RcResolveCommandSwapped(strategy) ==
    IF strategy = "ours" THEN "git checkout --theirs" ELSE "git checkout --ours"

\* the command of the cases "ours" and "theirs" (lines 447, 458)
RcResolveCommand(strategy) ==
    IF strategy = "ours" THEN "git checkout --ours" ELSE "git checkout --theirs"

\* lines 448-450, 459-461: the result of a whole-file checkout
CheckoutResult(strategy, r) ==
    IF r.success
    THEN [resolved |-> 1,
          strategy |-> <<<<IF strategy = "ours" THEN "Chose ours for entire file"
                           ELSE "Chose theirs for entire file", NoText>>>>]
    ELSE [resolved |-> 0, strategy |-> <<<<"Failed: ", r.error>>>>]

\* lines 452, 463
WouldChooseResult(strategy) ==
    [resolved |-> 1,
     strategy |-> <<<<IF strategy = "ours" THEN "Would choose ours for entire file"
                      ELSE "Would choose theirs for entire file", NoText>>>>]

\* mutant: the loop ends at the first file that is not resolved
RcNextFileUntilFailure(count) ==
    IF rcFileIdx < Len(conflictedFiles) /\ count = rcFileIdx THEN "resolveFile"
    ELSE IF rcArgs.continueOperation /\ count = Len(conflictedFiles) /\ ~rcArgs.previewOnly
    THEN "state"
    ELSE "report"

\* mutant: the operation is continued whatever the number of resolved files
RcNextFileWhateverResolved(count) ==
    IF rcFileIdx < Len(conflictedFiles) THEN "resolveFile"
    ELSE IF rcArgs.continueOperation /\ ~rcArgs.previewOnly THEN "state"
    ELSE "report"

\* the next iteration of the loop of line 441, or what follows it (line 515)
RcNextFile(count) ==
    IF rcFileIdx < Len(conflictedFiles) THEN "resolveFile"
    ELSE IF rcArgs.continueOperation /\ count = Len(conflictedFiles) /\ ~rcArgs.previewOnly
    THEN "state"
    ELSE "report"

\* lines 494-511 up to the staging command
RcResolved(result) ==
    /\ rcResolveResult' = result
    /\ IF result.resolved > 0
       THEN /\ totalResolved' = totalResolved + 1
            /\ UNCHANGED rcWarnings
            /\ IF ~rcArgs.previewOnly
               THEN /\ rcPc' = "stageFile"
                    /\ UNCHANGED <<rcSteps, resolutionDetails, rcFileIdx>>
               ELSE /\ rcSteps' = Append(rcSteps,
                                         <<"Would resolve", conflictedFiles[rcFileIdx]>>)
                    /\ resolutionDetails' = Append(resolutionDetails,
                            <<conflictedFiles[rcFileIdx], result.strategy>>)
                    /\ rcPc' = RcNextFile(totalResolved')
                    /\ rcFileIdx' = rcFileIdx + 1
       ELSE /\ rcWarnings' = Append(rcWarnings, <<"Failed to resolve",
                                                  conflictedFiles[rcFileIdx], result.strategy>>)
            /\ rcPc' = RcNextFile(totalResolved)
            /\ rcFileIdx' = rcFileIdx + 1
            /\ UNCHANGED <<totalResolved, rcSteps, resolutionDetails>>

\* the file system after the case "smart" has run on a file (lines 468-470)
SmartFileLog(file, read, writes) ==
    LET twice == ReadFile(ReadFile(fileLog, file, read), file, read)
        applied == ApplySmartResolution(read.lines, AnalyzeFile(read).conflictBlocks)
    IN IF read.success /\ applied.written /\ writes
       THEN WriteFile(twice, file, applied.content)
       ELSE twice

\* the switch of lines 444-492 for one file
RcResolveFile ==
    /\ rcPc = "resolveFile"
    /\ LET file == conflictedFiles[rcFileIdx]
       IN CASE rcArgs.strategy \in {"ours", "theirs"} /\ ~rcArgs.previewOnly ->
                 \E r \in PlainResults :
                    /\ rcLog' = RcExec(RcResolveCommand(rcArgs.strategy), file, r)
                    /\ RcResolved(CheckoutResult(rcArgs.strategy, r))
                    /\ UNCHANGED fileLog
            [] rcArgs.strategy \in {"ours", "theirs"} /\ rcArgs.previewOnly ->
                    /\ RcResolved(WouldChooseResult(rcArgs.strategy))
                    /\ UNCHANGED <<rcLog, fileLog>>
            [] rcArgs.strategy = "smart" /\ ~rcArgs.previewOnly ->
                 \E read \in ReadResults : \E writes \in BOOLEAN :
                    /\ fileLog' = SmartFileLog(file, read, writes)
                    /\ RcResolved(SmartResult(file, read, AnalyzeFile(read).conflictBlocks,
                                              writes))
                    /\ UNCHANGED rcLog
            [] rcArgs.strategy = "smart" /\ rcArgs.previewOnly ->
                 \E read \in ReadResults :
                    /\ fileLog' = ReadFile(fileLog, file, read)
                    /\ RcResolved(PreviewResult(AnalyzeFile(read).conflictBlocks))
                    /\ UNCHANGED rcLog
            [] OTHER ->
                    /\ RcResolved([resolved |-> 0,
                                   strategy |-> <<<<"Unknown strategy: ", rcArgs.strategy>>>>])
                    /\ UNCHANGED <<rcLog, fileLog>>
    /\ UNCHANGED <<rcArgs, conflictedFiles, conflictState, rcEntries, rcVerdict>>
    /\ UNCHANGED outsideResolveConflicts

\* lines 498-508
RcStageFile ==
    /\ rcPc = "stageFile"
    /\ \E r \in PlainResults :
        /\ rcLog' = RcExec("git add", conflictedFiles[rcFileIdx], r)
        /\ IF r.success
           THEN /\ rcSteps' = Append(rcSteps,
                                     <<"Resolved and staged", conflictedFiles[rcFileIdx]>>)
                /\ UNCHANGED rcWarnings
           ELSE /\ rcWarnings' = Append(rcWarnings, <<"Resolved but failed to stage",
                                                      conflictedFiles[rcFileIdx], r.error>>)
                /\ UNCHANGED rcSteps
    /\ resolutionDetails' = Append(resolutionDetails,
                                   <<conflictedFiles[rcFileIdx], rcResolveResult.strategy>>)
    /\ rcPc' = RcNextFile(totalResolved)
    /\ rcFileIdx' = rcFileIdx + 1
    /\ UNCHANGED <<rcArgs, conflictedFiles, rcResolveResult, totalResolved, conflictState,
                   rcEntries, fileLog, rcVerdict>>
    /\ UNCHANGED outsideResolveConflicts

\* lines 518-539
RcContinue ==
    /\ rcPc = "continue"
    /\ LET cmd == RcContinueCommand(conflictState)
       IN IF cmd = NoCommand
          THEN UNCHANGED <<rcLog, rcSteps, rcWarnings>>
          ELSE \E r \in PlainResults :
               /\ rcLog' = RcExec(cmd, "", r)
               /\ IF r.success
                  THEN /\ rcSteps' = Append(rcSteps, <<ContinuedStep(cmd), "">>)
                       /\ UNCHANGED rcWarnings
                  ELSE /\ rcWarnings' = Append(rcWarnings, <<ContinueWarning(cmd), "", r.error>>)
                       /\ UNCHANGED rcSteps
    /\ rcPc' = "report"
    /\ UNCHANGED <<rcArgs, conflictedFiles, rcFileIdx, rcResolveResult, totalResolved,
                   resolutionDetails, conflictState, rcEntries, fileLog, rcVerdict>>
    /\ UNCHANGED outsideResolveConflicts

\* the text each handler returns
RcReportLabel ==
    CASE rcArgs.action = "status" -> "Conflict Status"
      [] rcArgs.action = "analyze" ->
            IF Len(conflictedFiles) = 0 THEN "No conflicted files found to analyze"
            ELSE "Conflict Analysis"
      [] rcArgs.action = "manual-assist" ->
            IF Len(conflictedFiles) = 0 THEN "No conflicted files found"
            ELSE "Manual Resolution Assistance"
      [] OTHER ->
            IF Len(conflictedFiles) = 0 THEN "No conflicted files found to resolve"
            ELSE IF rcArgs.previewOnly THEN "PREVIEW: Auto-resolved"
            ELSE "Auto-resolved"

\* the return statements of lines 320, 338, 390, 412, 548, 568 and 631
RcReturn ==
    /\ rcPc = "report"
    /\ rcPc' = "done"
    /\ rcVerdict' =
         [kind |-> "report",
          message |-> <<RcReportLabel, NoText>>,
          steps |-> rcSteps,
          warnings |-> IF rcArgs.action = "auto-resolve" THEN rcWarnings ELSE <<>>,
          state |-> CASE rcArgs.action = "status" -> StatusState(conflictState)
                      [] rcArgs.action = "manual-assist" /\ Len(conflictedFiles) > 0 ->
                            AssistCommand(conflictState)
                      [] OTHER -> NoCommand,
          resolved |-> totalResolved,
          total |-> Len(conflictedFiles),
          details |-> IF rcArgs.action = "auto-resolve" THEN resolutionDetails
                      ELSE rcEntries]
    /\ UNCHANGED <<rcArgs, rcSteps, rcWarnings, conflictedFiles, rcFileIdx, rcResolveResult,
                   totalResolved, resolutionDetails, conflictState, rcEntries, rcLog, fileLog>>
    /\ UNCHANGED outsideResolveConflicts

\* handleAbort once the state is known (lines 642-684)
RcAbort ==
    /\ rcPc = "abort"
    /\ LET cmd == AbortCommand(conflictState)
           aborting == Append(rcSteps, <<"Aborting current operation", "">>)
       IN IF cmd = NoCommand
          THEN /\ rcPc' = "done"
               /\ rcVerdict' = RcReport("No active merge/rebase/cherry-pick operation to abort",
                                        rcSteps, <<>>)
               /\ UNCHANGED <<rcLog, rcSteps>>
          ELSE \E r \in PlainResults :
               /\ rcLog' = RcExec(cmd, "", r)
               /\ IF r.success
                  THEN /\ rcSteps' = Append(aborting, <<"Successfully aborted operation", "">>)
                       /\ rcPc' = "done"
                       /\ rcVerdict' = RcReport("Operation Aborted", rcSteps', <<>>)
                  ELSE /\ rcSteps' = aborting
                       /\ rcPc' = "catch"
                       /\ UNCHANGED rcVerdict
    /\ UNCHANGED <<rcArgs, rcWarnings, conflictedFiles, rcFileIdx, rcResolveResult,
                   totalResolved, resolutionDetails, conflictState, rcEntries, fileLog>>
    /\ UNCHANGED outsideResolveConflicts

\* lines 278-288, once the rejection of handleAbort (line 680) has passed the
\* await of line 272: the error names the failure of the abort command
RcCatch ==
    /\ rcPc = "catch"
    /\ RcThrow(<<"Failed to abort operation: ", rcLog[Len(rcLog)].result.error>>, rcSteps)
    /\ UNCHANGED <<rcArgs, rcSteps, rcWarnings, conflictedFiles, rcFileIdx, rcResolveResult,
                   totalResolved, resolutionDetails, conflictState, rcEntries, rcLog, fileLog>>
    /\ UNCHANGED outsideResolveConflicts

ResolveConflictsNext ==
    \/ RcGitCheck
    \/ RcConflictState
    \/ RcListFiles
    \/ RcBackup
    \/ RcInspectFile
    \/ RcResolveFile
    \/ RcStageFile
    \/ RcContinue
    \/ RcReturn
    \/ RcAbort
    \/ RcCatch

----------------------------------------------------------------------------
(* The smart strategy on one file (lines 467-487): the file is parsed, then *)
(* previewed (previewOnly) or rewritten by applySmartResolution (otherwise),*)
(* and the rewritten file is parsed again                                   *)

\* the number of conflict blocks of the longest file
MaxBlocks == 2

ImportX == <<"i", "m", "p", "o", "r", "t", " ", "x">>
FromY == <<"f", "r", "o", "m", " ", "y">>
VersionMinusOne == <<"v", "e", "r", "s", "i", "o", "n", "-", "1">>
VersionMinusTwo == <<"v", "e", "r", "s", "i", "o", "n", "-", "2">>

\* the lines of the two sides of a block, one kind of block for each rule
BlockKinds ==
    {<<<<>>, <<<<"a">>>>>>,                          \* ours empty
     <<<<<<"a">>>>, <<>>>>,                          \* theirs empty
     <<<<>>, <<>>>>,                                 \* both empty
     <<<<<<"a">>, <<"b">>>>, <<<<"a">>>>>>,          \* ours includes theirs
     <<<<<<"a">>>>, <<<<"a">>, <<"b">>>>>>,          \* theirs includes ours
     <<<<ImportX>>, <<FromY>>>>,                     \* imports
     <<<<<<"a">>>>, <<<<"b">>>>>>,                   \* additions
     <<<<VersionMinusOne>>, <<VersionMinusTwo>>>>,   \* versions
     <<<<<<"x", "-", "1">>>>, <<<<"y", "-", "2">>>>>>}   \* none of the rules

\* the marker lines and the sides of one block as they stand in the file
BlockLines(kind) ==
    <<StartMarker \o <<" ", "H", "E", "A", "D">>>> \o kind[1] \o <<MiddleMarker>>
        \o kind[2] \o <<EndMarker \o <<" ", "m", "a", "i", "n">>>>

\* the files of k blocks, a line "c" before, between and after the blocks
RECURSIVE FilesOf(_)
FilesOf(k) ==
    IF k = 0 THEN {<<<<"c">>>>}
    ELSE {f \o BlockLines(kind) \o <<<<"c">>>> : f \in FilesOf(k - 1), kind \in BlockKinds}

\* a file of 23 lines whose marker lines are 5, 6, 7 and 20, 21, 22
TwoRegionFile ==
    [i \in 1..23 |->
        CASE i \in {6, 21} -> StartMarker \o <<" ", "H", "E", "A", "D">>
          [] i \in {7, 22} -> MiddleMarker
          [] i \in {8, 23} -> EndMarker \o <<" ", "m", "a", "i", "n">>
          [] OTHER -> <<"c">>]

SmartContents == UNION {FilesOf(k) : k \in 0..MaxBlocks} \cup {TwoRegionFile}

SmartInit ==
    /\ content \in SmartContents
    /\ analysis = NoResult
    /\ ClassifyIdle
    /\ SmartFileIdle
    /\ SyncWorkIdle
    /\ CountIdle
    /\ ResolveConflictsIdle
    /\ PrepareBranchIdle
    /\ OrchestrateWorkflowIdle

\* line 468: const analysis = analyzeFileConflicts(file)
SmartAnalyze ==
    /\ analysis = NoResult
    /\ analysis' = AnalyzeFileConflicts(content)
    /\ UNCHANGED <<content, syncVars, countVars, rcVars, pbVars, smartVars, owVars>>

\* lines 471-486: previewOnly
SmartPreview ==
    /\ analysis # NoResult
    /\ smartPreview = NoPreview
    /\ smartPreview' = PreviewResult(analysis.conflictBlocks)
    /\ UNCHANGED <<blockOurs, blockTheirs, blockChoice, smartApplied, smartReparse,
                   syncVars, countVars, parseVars, rcVars, pbVars, owVars>>

\* line 470: applySmartResolution(file, analysis.conflictBlocks), the file being
\* readable and writable
SmartApply ==
    /\ analysis # NoResult
    /\ smartApplied = NoApplied
    /\ smartApplied' = ApplySmartResolution(content, analysis.conflictBlocks)
    /\ UNCHANGED <<blockOurs, blockTheirs, blockChoice, smartPreview, smartReparse,
                   syncVars, countVars, parseVars, rcVars, pbVars, owVars>>

\* analyzeFileConflicts on the file as applySmartResolution has left it
SmartReparse ==
    /\ smartApplied # NoApplied
    /\ smartReparse = NoResult
    /\ smartReparse' = AnalyzeFileConflicts(IF smartApplied.written
                                            THEN smartApplied.content ELSE content)
    /\ UNCHANGED <<blockOurs, blockTheirs, blockChoice, smartPreview, smartApplied,
                   syncVars, countVars, parseVars, rcVars, pbVars, owVars>>

SmartNext ==
    \/ SmartAnalyze
    \/ SmartPreview
    \/ SmartApply
    \/ SmartReparse

SmartSpec == SmartInit /\ [][SmartNext]_vars

----------------------------------------------------------------------------
(* prepareBranch (src/src/tools/prepare-branch.ts): one invocation, one     *)
(* action per command                                                       *)

PbBranch == "feature-branch"

PbBases == {"develop", PbBranch}

PbActions == {"create", "checkout", "sync"}

PbSyncStrategies == {"rebase", "merge"}

\* git branch --show-current inside prepareBranch
PbCurrentBranchResults ==
    {[success |-> TRUE, stdout |-> b, error |-> NoText] : b \in {PbBranch, "main"}}
        \cup {[success |-> FALSE, stdout |-> EmptyString, error |-> ErrCommand]}

\* git rebase origin/<base> and git merge origin/<base>
PbSyncResults == {Ok(<<>>), Fail(ErrConflict), Fail(ErrCommand)}

\* the catch block of prepareBranch
PbFailureVerdict(message, st) ==
    [kind |-> "failure", message |-> message, steps |-> st, warnings |-> <<>>,
     finalBranch |-> Undefined]

\* the report returned at line 143
PbSuccessVerdict(st, wn, final) ==
    [kind |-> "success", message |-> <<"Successfully prepared branch", NoText>>,
     steps |-> st, warnings |-> wn, finalBranch |-> final]

PbExec(cmd, arg, result) == Append(pbLog, [cmd |-> cmd, arg |-> arg, result |-> result])

\* the invocation goes on at position p
PbGoto(p) == pbPc' = p /\ UNCHANGED <<pbVerdict, pbError>>

\* throw new Error(message) in prepareBranch itself (line 86), before any stash:
\* the catch block of line 155 returns the failure text
PbThrow(message) ==
    /\ pbPc' = "done"
    /\ pbVerdict' = PbFailureVerdict(message, pbSteps)
    /\ UNCHANGED pbError

\* throw new Error(message) in a handler: the promise of the handler is
\* rejected, and the catch block runs once the await of lines 114-122 resumes
PbReject(message) ==
    /\ pbPc' = "catch"
    /\ pbError' = message
    /\ UNCHANGED pbVerdict

\* a command whose success is a step and whose failure is a warning
PbStepOrWarning(r, step, warning) ==
    IF r.success
    THEN pbSteps' = Append(pbSteps, step) /\ UNCHANGED pbWarnings
    ELSE pbWarnings' = Append(pbWarnings, warning) /\ UNCHANGED pbSteps

\* lines 131-132: where the invocation goes once the push is done or skipped
PbAfterPush(created) == IF created THEN "restoreBranch" ELSE "finalBranch"

\* line 127: where the invocation goes once the action is done
PbAfterAction == IF pbArgs.pushToRemote /\ pbArgs.action # "sync"
                 THEN "pushExists" ELSE PbAfterPush(stashCreated)

\* line 227: where handleCheckoutAction goes once the branch is checked out
PbAfterCheckout == IF Truthy(pbArgs.base) /\ pbArgs.base # pbArgs.branch
                   THEN "fetchBase" ELSE PbAfterAction

\* the position of each case of the switch of line 112
PbDispatch(action) ==
    CASE action = "create" -> "createExists"
      [] action = "checkout" -> "checkoutExists"
      [] OTHER -> "syncCurrent"

PrepareBranchInit ==
    /\ pbPc = "gitCheck"
    /\ pbArgs \in [branch : {PbBranch}, base : PbBases, action : PbActions,
                   syncStrategy : PbSyncStrategies, stashChanges : BOOLEAN,
                   pushToRemote : BOOLEAN]
    /\ pbSteps = <<>>
    /\ pbWarnings = <<>>
    /\ stashCreated = FALSE
    /\ pbError = <<"", NoText>>
    /\ pbLog = <<>>
    /\ pbVerdict = PbNoVerdict

\* lines 84-87
PbGitCheck ==
    /\ pbPc = "gitCheck"
    /\ \E r \in PlainResults :
        /\ pbLog' = PbExec("git rev-parse --git-dir", "", r)
        /\ IF r.success THEN PbGoto("currentBranch")
           ELSE PbThrow(<<"Not in a git repository", NoText>>)
    /\ UNCHANGED <<pbArgs, pbSteps, pbWarnings, stashCreated>>
    /\ UNCHANGED outsidePrepareBranch

\* lines 89-90
PbCurrentBranch ==
    /\ pbPc = "currentBranch"
    /\ \E r \in PbCurrentBranchResults :
        /\ pbLog' = PbExec("git branch --show-current", "", r)
        /\ pbSteps' = Append(pbSteps, <<"Current branch: ",
                IF Truthy(GetCurrentBranch(r)) THEN GetCurrentBranch(r) ELSE "detached HEAD">>)
    /\ PbGoto("checkClean")
    /\ UNCHANGED <<pbArgs, pbWarnings, stashCreated>>
    /\ UNCHANGED outsidePrepareBranch

\* line 93: !isWorkingDirectoryClean() && stashChanges && action !== "sync"
PbWantsStash(clean, stashChanges, action) == ~clean /\ stashChanges /\ action # "sync"

\* line 93
PbCheckClean ==
    /\ pbPc = "checkClean"
    /\ \E r \in StatusResults :
        /\ pbLog' = PbExec("git status --porcelain", "", r)
        /\ PbGoto(IF PbWantsStash(IsWorkingDirectoryClean(r), pbArgs.stashChanges, pbArgs.action)
                  THEN "stash" ELSE "fetch")
    /\ UNCHANGED <<pbArgs, pbSteps, pbWarnings, stashCreated>>
    /\ UNCHANGED outsidePrepareBranch

\* lines 94-100
PbStash ==
    /\ pbPc = "stash"
    /\ \E r \in PlainResults :
        /\ pbLog' = PbExec("git stash push", "", r)
        /\ stashCreated' = r.success
        /\ PbStepOrWarning(r, <<"Stashed uncommitted changes", "">>,
                              <<"Failed to stash changes: ", r.error>>)
    /\ PbGoto("fetch")
    /\ UNCHANGED pbArgs
    /\ UNCHANGED outsidePrepareBranch

\* lines 104-124
PbFetch ==
    /\ pbPc = "fetch"
    /\ \E r \in PlainResults :
        /\ pbLog' = PbExec("git fetch origin", "", r)
        /\ PbStepOrWarning(r, <<"Fetched latest updates from remote", "">>,
                              <<"Failed to fetch from remote: ", r.error>>)
    /\ PbGoto(PbDispatch(pbArgs.action))
    /\ UNCHANGED <<pbArgs, stashCreated>>
    /\ UNCHANGED outsidePrepareBranch

\* lines 175-177
PbCreateExists ==
    /\ pbPc = "createExists"
    /\ \E r \in BranchListResults(pbArgs.branch) :
        /\ pbLog' = PbExec("git branch --list", pbArgs.branch, r)
        /\ IF BranchExists(r, pbArgs.branch, FALSE)
           THEN PbReject(<<"Branch already exists locally: ", pbArgs.branch>>)
           ELSE PbGoto("createBaseRemote")
    /\ UNCHANGED <<pbArgs, pbSteps, pbWarnings, stashCreated>>
    /\ UNCHANGED outsidePrepareBranch

\* line 180
PbCreateBaseRemote ==
    /\ pbPc = "createBaseRemote"
    /\ \E r \in LsRemoteResults(pbArgs.base) :
        /\ pbLog' = PbExec("git ls-remote --heads origin", pbArgs.base, r)
        /\ PbGoto(IF BranchExists(r, pbArgs.base, TRUE)
                  THEN "createCheckoutBase" ELSE "createBranch")
    /\ UNCHANGED <<pbArgs, pbSteps, pbWarnings, stashCreated>>
    /\ UNCHANGED outsidePrepareBranch

\* lines 181-183 and 191-193
PbCreateCheckoutBase ==
    /\ pbPc = "createCheckoutBase"
    /\ \E r \in PlainResults :
        /\ pbLog' = PbExec("git checkout", pbArgs.base, r)
        /\ PbStepOrWarning(r, <<"Checked out base branch: ", pbArgs.base>>,
                              <<"Failed to checkout base branch: ", r.error>>)
        /\ PbGoto(IF r.success THEN "createPull" ELSE "createBranch")
    /\ UNCHANGED <<pbArgs, stashCreated>>
    /\ UNCHANGED outsidePrepareBranch

\* lines 185-190
PbCreatePull ==
    /\ pbPc = "createPull"
    /\ \E r \in PlainResults :
        /\ pbLog' = PbExec("git pull origin", pbArgs.base, r)
        /\ PbStepOrWarning(r, <<"Updated base branch with latest changes", "">>,
                              <<"Failed to update base branch: ", r.error>>)
    /\ PbGoto("createBranch")
    /\ UNCHANGED <<pbArgs, stashCreated>>
    /\ UNCHANGED outsidePrepareBranch

\* lines 197-202
PbCreateBranch ==
    /\ pbPc = "createBranch"
    /\ \E r \in PlainResults :
        /\ pbLog' = PbExec("git checkout -b", pbArgs.branch, r)
        /\ IF r.success
           THEN /\ pbSteps' = Append(pbSteps, <<"Created and checked out new branch: ", pbArgs.branch>>)
                /\ PbGoto(PbAfterAction)
           ELSE /\ PbReject(<<"Failed to create branch: ", r.error>>)
                /\ UNCHANGED pbSteps
    /\ UNCHANGED <<pbArgs, pbWarnings, stashCreated>>
    /\ UNCHANGED outsidePrepareBranch

\* lines 207 and 214
PbCheckoutExists ==
    /\ pbPc = "checkoutExists"
    /\ \E r \in BranchListResults(pbArgs.branch) :
        /\ pbLog' = PbExec("git branch --list", pbArgs.branch, r)
        /\ PbGoto(IF BranchExists(r, pbArgs.branch, FALSE)
                  THEN "checkoutLocal" ELSE "checkoutRemote")
    /\ UNCHANGED <<pbArgs, pbSteps, pbWarnings, stashCreated>>
    /\ UNCHANGED outsidePrepareBranch

\* lines 208-213
PbCheckoutLocal ==
    /\ pbPc = "checkoutLocal"
    /\ \E r \in PlainResults :
        /\ pbLog' = PbExec("git checkout", pbArgs.branch, r)
        /\ IF r.success
           THEN /\ pbSteps' = Append(pbSteps, <<"Checked out existing local branch: ", pbArgs.branch>>)
                /\ PbGoto(PbAfterCheckout)
           ELSE /\ PbReject(<<"Failed to checkout local branch: ", r.error>>)
                /\ UNCHANGED pbSteps
    /\ UNCHANGED <<pbArgs, pbWarnings, stashCreated>>
    /\ UNCHANGED outsidePrepareBranch

\* lines 214 and 222-224
PbCheckoutRemote ==
    /\ pbPc = "checkoutRemote"
    /\ \E r \in LsRemoteResults(pbArgs.branch) :
        /\ pbLog' = PbExec("git ls-remote --heads origin", pbArgs.branch, r)
        /\ IF BranchExists(r, pbArgs.branch, TRUE)
           THEN PbGoto("checkoutTracking")
           ELSE PbReject(<<"Branch does not exist locally or on remote: ", pbArgs.branch>>)
    /\ UNCHANGED <<pbArgs, pbSteps, pbWarnings, stashCreated>>
    /\ UNCHANGED outsidePrepareBranch

\* lines 216-221
PbCheckoutTracking ==
    /\ pbPc = "checkoutTracking"
    /\ \E r \in PlainResults :
        /\ pbLog' = PbExec("git checkout -b <branch> origin/<branch>", pbArgs.branch, r)
        /\ IF r.success
           THEN /\ pbSteps' = Append(pbSteps, <<"Created local tracking branch from remote: ", pbArgs.branch>>)
                /\ PbGoto(PbAfterCheckout)
           ELSE /\ PbReject(<<"Failed to checkout remote branch: ", r.error>>)
                /\ UNCHANGED pbSteps
    /\ UNCHANGED <<pbArgs, pbWarnings, stashCreated>>
    /\ UNCHANGED outsidePrepareBranch

\* lines 233-236
PbSyncCurrent ==
    /\ pbPc = "syncCurrent"
    /\ \E r \in PbCurrentBranchResults :
        /\ pbLog' = PbExec("git branch --show-current", "", r)
        /\ PbGoto(IF GetCurrentBranch(r) # pbArgs.branch THEN "syncExists" ELSE "fetchBase")
    /\ UNCHANGED <<pbArgs, pbSteps, pbWarnings, stashCreated>>
    /\ UNCHANGED outsidePrepareBranch

\* lines 237-239
PbSyncExists ==
    /\ pbPc = "syncExists"
    /\ \E r \in BranchListResults(pbArgs.branch) :
        /\ pbLog' = PbExec("git branch --list", pbArgs.branch, r)
        /\ IF BranchExists(r, pbArgs.branch, FALSE)
           THEN PbGoto("syncCheckout")
           ELSE PbReject(<<"Branch does not exist locally: ", pbArgs.branch>>)
    /\ UNCHANGED <<pbArgs, pbSteps, pbWarnings, stashCreated>>
    /\ UNCHANGED outsidePrepareBranch

\* lines 241-246
PbSyncCheckout ==
    /\ pbPc = "syncCheckout"
    /\ \E r \in PlainResults :
        /\ pbLog' = PbExec("git checkout", pbArgs.branch, r)
        /\ IF r.success
           THEN /\ pbSteps' = Append(pbSteps, <<"Checked out branch: ", pbArgs.branch>>)
                /\ PbGoto("fetchBase")
           ELSE /\ PbReject(<<"Failed to checkout branch: ", r.error>>)
                /\ UNCHANGED pbSteps
    /\ UNCHANGED <<pbArgs, pbWarnings, stashCreated>>
    /\ UNCHANGED outsidePrepareBranch

\* lines 255-260
PbFetchBase ==
    /\ pbPc = "fetchBase"
    /\ \E r \in PlainResults :
        /\ pbLog' = PbExec("git fetch origin", pbArgs.base, r)
        /\ PbStepOrWarning(r, <<"Fetched latest from remote: ", pbArgs.base>>,
                              <<"Failed to fetch: ", pbArgs.base, r.error>>)
    /\ PbGoto("syncWithBase")
    /\ UNCHANGED <<pbArgs, stashCreated>>
    /\ UNCHANGED outsidePrepareBranch

\* the command of each branch of line 264
PbSyncCommand(syncStrategy) == IF syncStrategy = "rebase" THEN "git rebase" ELSE "git merge"

\* mutant: every failure of the sync is taken for a conflict
PbIsConflictOnAnyFailure(error) == TRUE

\* lines 270 and 282: syncResult.error?.includes("conflict")
PbIsConflict(error) == Includes(error, ConflictIndicator)

\* lines 264-289
PbSyncWithBase ==
    /\ pbPc = "syncWithBase"
    /\ \E r \in PbSyncResults :
        /\ pbLog' = PbExec(PbSyncCommand(pbArgs.syncStrategy), pbArgs.base, r)
        /\ IF r.success
           THEN /\ pbSteps' = Append(pbSteps, <<"Synced with origin/", pbArgs.base>>)
                /\ UNCHANGED pbWarnings
           ELSE IF PbIsConflict(r.error)
                THEN /\ pbWarnings' = Append(pbWarnings,
                            <<"Conflicts detected. Run 'git status' to see conflicted files.", NoText>>)
                     /\ pbSteps' = Append(pbSteps, <<"conflicts need manual resolution", "">>)
                ELSE /\ pbWarnings' = Append(pbWarnings, <<"Sync with base failed: ", r.error>>)
                     /\ UNCHANGED pbSteps
    /\ PbGoto(PbAfterAction)
    /\ UNCHANGED <<pbArgs, stashCreated>>
    /\ UNCHANGED outsidePrepareBranch

\* line 294
PbPushExists ==
    /\ pbPc = "pushExists"
    /\ \E r \in LsRemoteResults(pbArgs.branch) :
        /\ pbLog' = PbExec("git ls-remote --heads origin", pbArgs.branch, r)
        /\ PbGoto(IF BranchExists(r, pbArgs.branch, TRUE) THEN "pushExisting" ELSE "pushNew")
    /\ UNCHANGED <<pbArgs, pbSteps, pbWarnings, stashCreated>>
    /\ UNCHANGED outsidePrepareBranch

\* lines 296-301 and 304-309
PbPush ==
    /\ pbPc \in {"pushNew", "pushExisting"}
    /\ \E r \in PlainResults :
        /\ pbLog' = PbExec(IF pbPc = "pushNew" THEN "git push -u origin" ELSE "git push origin",
                           pbArgs.branch, r)
        /\ PbStepOrWarning(r, <<"Pushed to remote: ", pbArgs.branch>>,
                              <<"Failed to push to remote: ", r.error>>)
    /\ PbGoto(PbAfterPush(stashCreated))
    /\ UNCHANGED <<pbArgs, stashCreated>>
    /\ UNCHANGED outsidePrepareBranch

\* line 132: stashCreated && getCurrentBranch() === branch
PbRestoreBranch ==
    /\ pbPc = "restoreBranch"
    /\ \E r \in PbCurrentBranchResults :
        /\ pbLog' = PbExec("git branch --show-current", "", r)
        /\ PbGoto(IF GetCurrentBranch(r) = pbArgs.branch THEN "stashPop" ELSE "finalBranch")
    /\ UNCHANGED <<pbArgs, pbSteps, pbWarnings, stashCreated>>
    /\ UNCHANGED outsidePrepareBranch

\* lines 133-138
PbStashPop ==
    /\ pbPc = "stashPop"
    /\ \E r \in PlainResults :
        /\ pbLog' = PbExec("git stash pop", "", r)
        /\ PbStepOrWarning(r, <<"Restored previously stashed changes", "">>,
                <<"Failed to restore stashed changes - they remain in stash", NoText>>)
    /\ PbGoto("finalBranch")
    /\ UNCHANGED <<pbArgs, stashCreated>>
    /\ UNCHANGED outsidePrepareBranch

\* lines 141-153
PbFinish ==
    /\ pbPc = "finalBranch"
    /\ \E r \in PbCurrentBranchResults :
        /\ pbLog' = PbExec("git branch --show-current", "", r)
        /\ pbVerdict' = PbSuccessVerdict(pbSteps, pbWarnings, GetCurrentBranch(r))
    /\ pbPc' = "done"
    /\ UNCHANGED <<pbArgs, pbSteps, pbWarnings, stashCreated, pbError>>
    /\ UNCHANGED outsidePrepareBranch

\* lines 155-169, once the rejection of a handler has passed the await: the
\* stash is popped if one was created
PbCatch ==
    /\ pbPc = "catch"
    /\ IF stashCreated
       THEN \E r \in PlainResults : pbLog' = PbExec("git stash pop", "", r)
       ELSE UNCHANGED pbLog
    /\ pbVerdict' = PbFailureVerdict(pbError, pbSteps)
    /\ pbPc' = "done"
    /\ UNCHANGED <<pbArgs, pbSteps, pbWarnings, stashCreated, pbError>>
    /\ UNCHANGED outsidePrepareBranch

PrepareBranchNext ==
    \/ PbGitCheck
    \/ PbCurrentBranch
    \/ PbCheckClean
    \/ PbStash
    \/ PbFetch
    \/ PbCreateExists
    \/ PbCreateBaseRemote
    \/ PbCreateCheckoutBase
    \/ PbCreatePull
    \/ PbCreateBranch
    \/ PbCheckoutExists
    \/ PbCheckoutLocal
    \/ PbCheckoutRemote
    \/ PbCheckoutTracking
    \/ PbSyncCurrent
    \/ PbSyncExists
    \/ PbSyncCheckout
    \/ PbFetchBase
    \/ PbSyncWithBase
    \/ PbPushExists
    \/ PbPush
    \/ PbRestoreBranch
    \/ PbStashPop
    \/ PbFinish
    \/ PbCatch

----------------------------------------------------------------------------
(* orchestrateWorkflow (src/src/tools/resolve-conflicts.ts, lines 692-1366): *)
(* one invocation, one step per command.  `owLog` holds the commands that    *)
(* were executed; a command handed to executeCommand with dryRun = true is  *)
(* not executed and leaves no entry.                                        *)

OwWorkflows == {"start-work", "complete-feature", "address-feedback", "hotfix", "release-prep",
                "cleanup"}

\* the number of branches git branch --merged main lists besides main, master,
\* develop
MaxMerged == 6

\* what generateBranchName returns when no branch name is given
GeneratedBranch == "generated branch name"

\* git remote get-url origin
GithubUrl ==
    <<"h", "t", "t", "p", "s", ":", "/", "/", "G", "i", "t", "H", "u", "b", ".", "c",
      "o", "m", "/", "u", "s", "e", "r", "/", "r", "e", "p", "o", ".", "g", "i", "t">>
GitlabUrl ==
    <<"g", "i", "t", "@", "g", "i", "t", "l", "a", "b", ".", "c", "o", "m", ":", "u",
      "s", "e", "r", "/", "r", "e", "p", "o", ".", "g", "i", "t">>
OtherUrl ==
    <<"h", "t", "t", "p", "s", ":", "/", "/", "e", "x", "a", "m", "p", "l", "e", ".",
      "c", "o", "m", "/", "u", "s", "e", "r", "/", "r", "e", "p", "o", ".", "g", "i",
      "t">>

RemoteResults == {Ok(GithubUrl), Ok(GitlabUrl), Ok(OtherUrl), Fail(ErrCommand)}

\* git branch --show-current in the repository of the workflow
OwCurrentBranchResults ==
    {[success |-> TRUE, stdout |-> b, error |-> NoText] :
        b \in {"main", "feature-branch", EmptyString}}
        \cup {[success |-> FALSE, stdout |-> EmptyString, error |-> ErrCommand]}

\* gh pr list --head <branch> --json number --jq '.[0].number'
PrListResults == {Ok(<<"1", "2">>), Ok(<<"n", "u", "l", "l">>), Ok(<<>>), Fail(ErrCommand)}

\* the line of git branch --merged main for the k-th merged branch, "* " before
\* the current branch
MergedLine(k, current) ==
    (IF current THEN <<"*", " ">> ELSE <<" ", " ">>)
        \o <<"f", "e", "a", "t", "u", "r", "e", "-", CodeUnits[7 + k]>>

ProtectedLine(name, current) ==
    (IF current THEN <<"*", " ">> ELSE <<" ", " ">>) \o name

MainName == <<"m", "a", "i", "n">>
MasterName == <<"m", "a", "s", "t", "e", "r">>
DevelopName == <<"d", "e", "v", "e", "l", "o", "p">>

\* the output for n merged branches: develop, the n branches, main and master;
\* the current branch is the branch `cur`, or main when cur = 0
MergedListing(n, cur) ==
    <<ProtectedLine(DevelopName, FALSE)>>
        \o [k \in 1..n |-> MergedLine(k, k = cur)]
        \o <<ProtectedLine(MainName, cur = 0), ProtectedLine(MasterName, FALSE)>>

\* git branch --merged main: stdout is trimmed by executeCommand
MergedResults ==
    {Ok(Trim(Join(MergedListing(n, cur)))) : n \in 0..MaxMerged, cur \in {0, 2}}
        \cup {Ok(<<"*", " ">> \o MainName), Fail(ErrCommand)}

UpperCase == {CodeUnits[i] : i \in 21..46}

\* String.prototype.toLowerCase on the letters A-Z
ToLowerCase(text) ==
    [i \in 1..Len(text) |->
        IF text[i] \in UpperCase THEN CodeUnits[CodeUnit(text[i]) + 26] ELSE text[i]]

\* detectPlatform (lines 753-764)
DetectPlatform(result) ==
    IF ~result.success THEN "unknown"
    ELSE IF Includes(ToLowerCase(result.stdout), <<"g", "i", "t", "h", "u", "b">>)
    THEN "github"
    ELSE IF Includes(ToLowerCase(result.stdout), <<"g", "i", "t", "l", "a", "b">>)
    THEN "gitlab"
    ELSE "unknown"

\* lines 1309-1312: split("\n").map(b => b.trim()).filter(...)
MergedBranches(stdout) ==
    LET trimmed == [i \in 1..Len(SplitLines(stdout)) |-> Trim(SplitLines(stdout)[i])]
    IN SelectSeq(trimmed, LAMBDA b :
            /\ b # <<>>
            /\ ~StartsWith(b, <<"*">>)
            /\ b \notin {MainName, MasterName, DevelopName})

\* mutant: every merged branch is deleted
DeleteLimitNone(n) == n

\* line 1321: mergedBranches.slice(0, 5)
DeleteLimit(n) == IF n < 5 THEN n ELSE 5

\* a number that is neither 0 nor NaN
TruthyNumber(n) == n.type = "number" /\ n.value # 0

OwExec(cmd, arg, r) == Append(owLog, [cmd |-> cmd, arg |-> arg, result |-> r])

\* the locals of the handlers
owLocals == <<owPlatform, owBranch, owPr, owMerged, owIdx>>

OwGoto(p) == owPc' = p /\ UNCHANGED <<owVerdict, owError>>

\* the failure text of the catch block of lines 850-860
OwFailureVerdict(message, st) ==
    [kind |-> "failure", message |-> message, steps |-> st, warnings |-> <<>>]

\* throw new Error(message) in orchestrateWorkflow itself (line 815), caught at
\* line 850
OwThrow(message) ==
    /\ owPc' = "done"
    /\ owVerdict' = OwFailureVerdict(message, owSteps)
    /\ UNCHANGED owError

\* throw new Error(message) in a handler: the promise of the handler is
\* rejected, and the catch block runs once the await of lines 829-844 resumes
OwReject(message) ==
    /\ owPc' = "catch"
    /\ owError' = message
    /\ UNCHANGED owVerdict

\* mutant: executeCommand ignores its dryRun parameter
OwDryIgnored(dryRun) == FALSE

\* lines 725-728: executeCommand(command, dryRun) returns without executing
OwDry(dryRun) == dryRun

\* const result = executeCommand(command, dryRun), then
\* if (result.success || dryRun) steps.push(step), else a warning that ends with
\* the error of the command, a warning of a fixed text, a throw or nothing
OwRun(cmd, arg, step, failure, next) ==
    /\ IF OwDry(owArgs.dryRun)
       THEN /\ owSteps' = Append(owSteps, step)
            /\ OwGoto(next)
            /\ UNCHANGED <<owLog, owWarnings>>
       ELSE \E r \in PlainResults :
            /\ owLog' = OwExec(cmd, arg, r)
            /\ IF r.success
               THEN /\ owSteps' = Append(owSteps, step)
                    /\ OwGoto(next)
                    /\ UNCHANGED owWarnings
               ELSE CASE failure[1] = "warning" ->
                            /\ owWarnings' = Append(owWarnings, <<failure[2], r.error>>)
                            /\ OwGoto(next)
                            /\ UNCHANGED owSteps
                      [] failure[1] = "fixedWarning" ->
                            /\ owWarnings' = Append(owWarnings, <<failure[2], NoText>>)
                            /\ OwGoto(next)
                            /\ UNCHANGED owSteps
                      [] failure[1] = "throw" ->
                            /\ OwReject(<<failure[2], r.error>>)
                            /\ UNCHANGED <<owSteps, owWarnings>>
                      [] OTHER ->
                            /\ OwGoto(next)
                            /\ UNCHANGED <<owSteps, owWarnings>>
    /\ UNCHANGED <<owArgs, owLocals>>

Ignored == <<"nothing", "">>

\* the steps a handler pushes before its first command
OwEntrySteps(workflow, branch) ==
    CASE workflow = "hotfix" -> <<<<"Creating hotfix: ", branch>>,
                                  <<"HOTFIX WORKFLOW - Fast-track process", "">>>>
      [] workflow = "release-prep" -> <<<<"Preparing release: ", branch>>>>
      [] workflow = "cleanup" ->
            <<<<"Cleaning up merged branches and stale references", "">>>>
      [] OTHER -> <<>>

\* the first position of each handler
OwDispatch(workflow) ==
    CASE workflow = "hotfix" -> "hf.checkout"
      [] workflow = "release-prep" -> "rp.checkout"
      [] workflow = "cleanup" -> "cl.fetch"
      [] OTHER -> "currentBranch"

OrchestrateWorkflowInit ==
    /\ owPc = "gitCheck"
    /\ owArgs \in [workflow : OwWorkflows, ticket : {Undefined, "#456"},
                   branchName : {Undefined, "feature/login"}, targetBranch : {"main"},
                   skipTests : BOOLEAN, dryRun : BOOLEAN]
    /\ owSteps = <<>>
    /\ owWarnings = <<>>
    /\ owPlatform = Undefined
    /\ owBranch = Undefined
    /\ owPr = UndefinedValue
    /\ owMerged = <<>>
    /\ owIdx = 0
    /\ owLog = <<>>
    /\ owVerdict = OwNoVerdict
    /\ owError = <<"", NoText>>

\* everything an invocation of orchestrateWorkflow leaves alone
outsideWorkflow == <<syncVars, countVars, parseVars, rcVars, pbVars, smartVars>>

\* lines 812-815
OwGitCheck ==
    /\ owPc = "gitCheck"
    /\ \E r \in PlainResults :
        /\ owLog' = OwExec("git rev-parse --git-dir", "", r)
        /\ IF r.success THEN OwGoto("platform")
           ELSE OwThrow(<<"Not in a git repository", NoText>>)
    /\ UNCHANGED <<owArgs, owSteps, owWarnings, owLocals>>
    /\ UNCHANGED outsideWorkflow

\* lines 818-848, and the steps a handler pushes before its first command
OwPlatform ==
    /\ owPc = "platform"
    /\ \E r \in RemoteResults :
        /\ owLog' = OwExec("git remote get-url origin", "", r)
        /\ owPlatform' = DetectPlatform(r)
    /\ owBranch' = IF Truthy(owArgs.branchName) THEN owArgs.branchName ELSE GeneratedBranch
    /\ owSteps' = owSteps \o <<<<"Platform: ", owPlatform'>>>>
                    \o (IF owArgs.dryRun
                        THEN <<<<"DRY RUN MODE - No actual changes will be made", "">>>>
                        ELSE <<>>)
                    \o OwEntrySteps(owArgs.workflow, owBranch')
    /\ OwGoto(OwDispatch(owArgs.workflow))
    /\ UNCHANGED <<owArgs, owWarnings, owPr, owMerged, owIdx>>
    /\ UNCHANGED outsideWorkflow

\* const currentBranch = getCurrentBranch() and what each handler makes of it
\* (lines 872-888, 948-960, 1070-1087)
OwCurrentBranch ==
    /\ owPc = "currentBranch"
    /\ \E r \in OwCurrentBranchResults :
        /\ owLog' = OwExec("git branch --show-current", "", r)
        /\ LET current == GetCurrentBranch(r)
               working == IF Truthy(owArgs.branchName) THEN owArgs.branchName ELSE current
           IN IF owArgs.workflow = "start-work"
              THEN /\ owSteps' = owSteps \o <<<<"Starting work on ", owArgs.ticket>>,
                                              <<"Target branch: ", owBranch>>>>
                   /\ OwGoto(IF current # owArgs.targetBranch
                             THEN "sw.checkout" ELSE "sw.pull")
                   /\ UNCHANGED owBranch
              ELSE IF ~Truthy(working)
              THEN /\ OwReject(<<"Cannot determine working branch", NoText>>)
                   /\ UNCHANGED <<owSteps, owBranch>>
              ELSE /\ owBranch' = working
                   /\ IF owArgs.workflow = "complete-feature"
                      THEN /\ owSteps' = Append(owSteps,
                                    <<"Completing feature on branch: ", working>>)
                           /\ OwGoto(IF owArgs.dryRun THEN "cf.fetch" ELSE "cf.clean")
                      ELSE /\ owSteps' = Append(owSteps,
                                    <<"Addressing feedback on branch: ", working>>)
                           /\ OwGoto(IF owPlatform = "github" THEN "af.findPr"
                                     ELSE "af.stage")
    /\ UNCHANGED <<owArgs, owWarnings, owPlatform, owPr, owMerged, owIdx>>
    /\ UNCHANGED outsideWorkflow

\* handleStartWork from its first command on (lines 879-909)
OwStartWork ==
    /\ CASE owPc = "sw.checkout" ->
                OwRun("git checkout", owArgs.targetBranch,
                      <<"Checked out base branch: ", owArgs.targetBranch>>,
                      <<"throw", "Failed to checkout base branch: ">>, "sw.pull")
         [] owPc = "sw.pull" ->
                OwRun("git pull origin", owArgs.targetBranch,
                      <<"Pulled latest changes from origin/", owArgs.targetBranch>>,
                      <<"warning", "Failed to pull latest changes: ">>, "sw.branch")
         [] owPc = "sw.branch" ->
                OwRun("git checkout -b", owBranch,
                      <<"Created and checked out branch: ", owBranch>>,
                      <<"throw", "Failed to create branch: ">>, "sw.push")
         [] owPc = "sw.push" ->
                OwRun("git push -u origin", owBranch,
                      <<"Pushed branch to remote with tracking", "">>,
                      <<"warning", "Failed to push branch: ">>, "return")
         [] OTHER -> FALSE
    /\ UNCHANGED outsideWorkflow

\* the place after the tests of handleCompleteFeature
OwAfterPush == IF owPlatform # "unknown" THEN "cf.create" ELSE "return"

\* handleCompleteFeature from the check of the working directory on (lines 957-1037)
OwCompleteFeature ==
    /\ CASE owPc = "cf.clean" ->
                /\ \E r \in StatusResults :
                    /\ owLog' = OwExec("git status --porcelain", "", r)
                    /\ IF IsWorkingDirectoryClean(r) THEN OwGoto("cf.fetch")
                       ELSE OwReject(<<"Working directory is not clean. Commit or stash changes first.", NoText>>)
                /\ UNCHANGED <<owArgs, owSteps, owWarnings, owLocals>>
         [] owPc = "cf.fetch" ->
                OwRun("git fetch origin", owArgs.targetBranch,
                      <<"Fetched latest ", owArgs.targetBranch>>, Ignored, "cf.rebase")
         [] owPc = "cf.rebase" ->
                OwRun("git rebase", owArgs.targetBranch,
                      <<"Rebased onto origin/", owArgs.targetBranch>>,
                      <<"warning", "Rebase failed, may need manual conflict resolution: ">>,
                      "cf.tests")
         [] owPc = "cf.tests" ->
                /\ IF owArgs.skipTests
                   THEN /\ owSteps' = Append(owSteps, <<"Skipped tests", "">>)
                        /\ OwGoto("cf.push")
                        /\ UNCHANGED owLog
                   ELSE /\ \E r \in PlainResults :
                            owLog' = OwExec("test -f package.json", "", r)
                        /\ OwGoto("cf.makefile")
                        /\ UNCHANGED owSteps
                /\ UNCHANGED <<owArgs, owWarnings, owLocals>>
         [] owPc = "cf.makefile" ->
                /\ \E r \in PlainResults :
                    /\ owLog' = OwExec("test -f Makefile", "", r)
                    /\ IF owLog[Len(owLog)].result.success /\ ~owArgs.dryRun
                       THEN OwGoto("cf.npm") /\ UNCHANGED owSteps
                       ELSE IF r.success /\ ~owArgs.dryRun
                       THEN OwGoto("cf.make") /\ UNCHANGED owSteps
                       ELSE /\ owSteps' = Append(owSteps,
                                <<"No standard test command found, skipping tests", "">>)
                            /\ OwGoto("cf.push")
                /\ UNCHANGED <<owArgs, owWarnings, owLocals>>
         [] owPc \in {"cf.npm", "cf.make"} ->
                /\ \E r \in PlainResults :
                    /\ owLog' = OwExec(IF owPc = "cf.npm"
                                       THEN "npm test || pnpm test || yarn test"
                                       ELSE "make test", "", r)
                    /\ IF r.success
                       THEN /\ owSteps' = Append(owSteps, <<"Tests passed", "">>)
                            /\ UNCHANGED owWarnings
                       ELSE /\ owWarnings' = Append(owWarnings,
                                <<"Tests failed - consider fixing before creating PR", NoText>>)
                            /\ UNCHANGED owSteps
                /\ OwGoto("cf.push")
                /\ UNCHANGED <<owArgs, owLocals>>
         [] owPc = "cf.push" ->
                OwRun("git push origin", owBranch, <<"Pushed changes to origin/", owBranch>>,
                      <<"throw", "Failed to push changes: ">>, OwAfterPush)
         [] owPc = "cf.create" ->
                OwRun(IF owPlatform = "github" THEN "gh pr create" ELSE "glab mr create",
                      owBranch,
                      <<IF owPlatform = "github" THEN "Created PR: Complete: "
                                                 ELSE "Created MR: Complete: ",
                        IF Truthy(owArgs.ticket) THEN owArgs.ticket ELSE owBranch>>,
                      <<"warning", IF owPlatform = "github" THEN "Failed to create PR: "
                                                            ELSE "Failed to create MR: ">>,
                      "return")
         [] OTHER -> FALSE
    /\ UNCHANGED outsideWorkflow

\* handleAddressFeedback from the search of the pull request on (lines 1080-1125)
OwAddressFeedback ==
    /\ CASE owPc = "af.findPr" ->
                /\ \E r \in PrListResults :
                    /\ owLog' = OwExec("gh pr list", owBranch, r)
                    /\ IF r.success /\ Trim(r.stdout) # <<"n", "u", "l", "l">>
                       THEN /\ owPr' = ParseInt(Trim(r.stdout))
                            /\ owSteps' = Append(owSteps, <<"Found PR for branch ", owBranch>>)
                       ELSE UNCHANGED <<owPr, owSteps>>
                    /\ OwGoto(IF TruthyNumber(owPr') THEN "af.view" ELSE "af.stage")
                /\ UNCHANGED <<owArgs, owWarnings, owPlatform, owBranch, owMerged, owIdx>>
         [] owPc = "af.view" ->
                /\ \E r \in PlainResults :
                    /\ owLog' = OwExec("gh pr view", owPr, r)
                    /\ IF r.success
                       THEN owSteps' = Append(owSteps,
                                              <<"Retrieved PR feedback for review", "">>)
                       ELSE UNCHANGED owSteps
                /\ OwGoto("af.stage")
                /\ UNCHANGED <<owArgs, owWarnings, owLocals>>
         [] owPc = "af.stage" ->
                OwRun("git add .", "", <<"Staged all changes", "">>, Ignored, "af.commit")
         [] owPc = "af.commit" ->
                OwRun("git commit -m", "Address code review feedback",
                      <<"Committed changes: ", "Address code review feedback">>,
                      <<"fixedWarning", "No changes to commit or commit failed">>, "af.push")
         [] owPc = "af.push" ->
                OwRun("git push origin", owBranch, <<"Pushed updates to origin/", owBranch>>,
                      Ignored,
                      IF TruthyNumber(owPr) /\ owPlatform = "github"
                      THEN "af.comment" ELSE "return")
         [] owPc = "af.comment" ->
                OwRun("gh pr comment", owPr,
                      <<"Added comment to PR about feedback being addressed", "">>,
                      Ignored, "return")
         [] OTHER -> FALSE
    /\ UNCHANGED outsideWorkflow

\* handleHotfix from its first command on (lines 1159-1203)
OwHotfix ==
    /\ CASE owPc = "hf.checkout" ->
                OwRun("git checkout", owArgs.targetBranch,
                      <<"Checked out ", owArgs.targetBranch>>, Ignored, "hf.pull")
         [] owPc = "hf.pull" ->
                OwRun("git pull origin", owArgs.targetBranch,
                      <<"Updated ", owArgs.targetBranch>>, Ignored, "hf.branch")
         [] owPc = "hf.branch" ->
                OwRun("git checkout -b", owBranch, <<"Created hotfix branch: ", owBranch>>,
                      Ignored, "hf.changes")
         [] owPc = "hf.changes" ->
                /\ owSteps' = owSteps
                        \o <<<<"Make your hotfix changes now", "">>,
                             <<"The workflow will continue after changes are committed", "">>>>
                /\ IF owArgs.dryRun
                   THEN OwGoto("hf.push") /\ UNCHANGED owLog
                   ELSE \E r \in StatusResults :
                        /\ owLog' = OwExec("git status --porcelain", "", r)
                        /\ OwGoto(IF IsWorkingDirectoryClean(r) THEN "hf.push" ELSE "hf.add")
                /\ UNCHANGED <<owArgs, owWarnings, owLocals>>
         [] owPc = "hf.add" ->
                /\ \E r \in PlainResults : owLog' = OwExec("git add .", "", r)
                /\ OwGoto("hf.commit")
                /\ UNCHANGED <<owArgs, owSteps, owWarnings, owLocals>>
         [] owPc = "hf.commit" ->
                /\ \E r \in PlainResults :
                    /\ owLog' = OwExec("git commit -m", "Hotfix", r)
                    /\ IF owLog[Len(owLog)].result.success /\ r.success
                       THEN owSteps' = Append(owSteps, <<"Committed hotfix: ", "Hotfix">>)
                       ELSE UNCHANGED owSteps
                /\ OwGoto("hf.push")
                /\ UNCHANGED <<owArgs, owWarnings, owLocals>>
         [] owPc = "hf.push" ->
                OwRun("git push -u origin", owBranch, <<"Pushed hotfix branch", "">>, Ignored,
                      IF owPlatform = "github" THEN "hf.create" ELSE "return")
         [] owPc = "hf.create" ->
                OwRun("gh pr create", owBranch, <<"Created emergency PR: ", "HOTFIX">>,
                      Ignored, "return")
         [] OTHER -> FALSE
    /\ UNCHANGED outsideWorkflow

\* handleReleasePrep from its first command on (lines 1237-1273)
OwReleasePrep ==
    /\ CASE owPc = "rp.checkout" ->
                OwRun("git checkout develop || git checkout staging", "",
                      <<"Checked out source branch for release", "">>, Ignored, "rp.pull")
         [] owPc = "rp.pull" ->
                OwRun("git pull", "", <<"Updated source branch", "">>, Ignored, "rp.branch")
         [] owPc = "rp.branch" ->
                OwRun("git checkout -b", owBranch, <<"Created release branch: ", owBranch>>,
                      Ignored, "rp.package")
         [] owPc = "rp.package" ->
                /\ \E r \in PlainResults :
                    /\ owLog' = OwExec("test -f package.json", "", r)
                    /\ owSteps' = owSteps
                        \o (IF r.success /\ ~owArgs.dryRun
                            THEN <<<<"Consider running version bump", "">>>> ELSE <<>>)
                        \o <<<<"Generate/update CHANGELOG.md with release notes", "">>>>
                /\ OwGoto("rp.push")
                /\ UNCHANGED <<owArgs, owWarnings, owLocals>>
         [] owPc = "rp.push" ->
                OwRun("git push -u origin", owBranch, <<"Pushed release branch", "">>, Ignored,
                      IF owPlatform = "github" THEN "rp.create" ELSE "return")
         [] owPc = "rp.create" ->
                OwRun("gh pr create", owBranch, <<"Created release PR: ", "Release">>,
                      Ignored, "return")
         [] OTHER -> FALSE
    /\ UNCHANGED outsideWorkflow

\* handleCleanup from its first command on (lines 1299-1350)
OwCleanup ==
    /\ CASE owPc = "cl.fetch" ->
                OwRun("git fetch --prune", "", <<"Fetched and pruned remote references", "">>,
                      Ignored, "cl.merged")
         [] owPc = "cl.merged" ->
                /\ \E r \in MergedResults :
                    /\ owLog' = OwExec("git branch --merged main", "", r)
                    /\ owMerged' = IF r.success /\ ~owArgs.dryRun
                                   THEN MergedBranches(r.stdout) ELSE <<>>
                /\ owSteps' = IF Len(owMerged') > 0
                              THEN Append(owSteps, <<"Found merged branches for cleanup",
                                                     Len(owMerged')>>)
                              ELSE owSteps
                /\ owIdx' = 1
                /\ OwGoto(IF Len(owMerged') > 0 THEN "cl.delete" ELSE "cl.gc")
                /\ UNCHANGED <<owArgs, owWarnings, owPlatform, owBranch, owPr>>
         [] owPc = "cl.delete" ->
                /\ LET last == owIdx >= DeleteLimit(Len(owMerged))
                       more == IF last /\ Len(owMerged) > 5
                               THEN <<<<"... and more branches", Len(owMerged) - 5>>>>
                               ELSE <<>>
                   IN /\ IF OwDry(owArgs.dryRun)
                         THEN /\ owSteps' = Append(owSteps, <<"Deleted merged branch: ",
                                                             owMerged[owIdx]>>) \o more
                              /\ UNCHANGED <<owLog, owWarnings>>
                         ELSE \E r \in PlainResults :
                              /\ owLog' = OwExec("git branch -d", owMerged[owIdx], r)
                              /\ IF r.success
                                 THEN /\ owSteps' = Append(owSteps,
                                            <<"Deleted merged branch: ", owMerged[owIdx]>>)
                                                \o more
                                      /\ UNCHANGED owWarnings
                                 ELSE /\ owWarnings' = Append(owWarnings,
                                            <<"Failed to delete ", owMerged[owIdx], r.error>>)
                                      /\ owSteps' = owSteps \o more
                      /\ OwGoto(IF last THEN "cl.gc" ELSE "cl.delete")
                /\ owIdx' = owIdx + 1
                /\ UNCHANGED <<owArgs, owPlatform, owBranch, owPr, owMerged>>
         [] owPc = "cl.gc" ->
                OwRun("git gc --prune=now", "",
                      <<"Cleaned up git objects and optimized repository", "">>, Ignored,
                      "cl.status")
         [] owPc = "cl.status" ->
                /\ \E r \in StatusResults :
                    /\ owLog' = OwExec("git status --short", "", r)
                    /\ owSteps' = Append(owSteps,
                            IF r.success /\ Len(r.stdout) > 0
                            THEN <<"Repository status: uncommitted changes", Len(r.stdout)>>
                            ELSE <<"Repository is clean", "">>)
                /\ OwGoto("return")
                /\ UNCHANGED <<owArgs, owWarnings, owLocals>>
         [] OTHER -> FALSE
    /\ UNCHANGED outsideWorkflow

\* what each handler returns as its title
OwReportLabel(workflow) ==
    CASE workflow = "start-work" -> "Successfully started work"
      [] workflow = "complete-feature" -> "Successfully completed feature workflow"
      [] workflow = "address-feedback" -> "Successfully addressed feedback"
      [] workflow = "hotfix" -> "HOTFIX WORKFLOW INITIATED"
      [] workflow = "release-prep" -> "RELEASE PREPARATION COMPLETE"
      [] OTHER -> "CLEANUP COMPLETE"

\* the last step of handleStartWork (904-907) and of handleCompleteFeature
\* (1040-1043), and the return statement of each handler
OwReturn ==
    /\ owPc = "return"
    /\ owSteps' = IF /\ owArgs.workflow \in {"start-work", "complete-feature"}
                     /\ Truthy(owArgs.ticket) /\ owPlatform # "unknown"
                  THEN Append(owSteps,
                              IF owArgs.workflow = "start-work"
                              THEN <<"Branch linked to ticket: ", owArgs.ticket>>
                              ELSE <<"Would transition to 'In Review': ", owArgs.ticket>>)
                  ELSE owSteps
    /\ owVerdict' = [kind |-> "report",
                     message |-> <<OwReportLabel(owArgs.workflow), NoText>>,
                     steps |-> owSteps',
                     warnings |-> IF owArgs.workflow \in {"hotfix", "release-prep"}
                                  THEN <<>> ELSE owWarnings]
    /\ owPc' = "done"
    /\ UNCHANGED <<owArgs, owWarnings, owLocals, owLog, owError>>
    /\ UNCHANGED outsideWorkflow

\* lines 850-860, once the rejection of a handler has passed the await
OwCatch ==
    /\ owPc = "catch"
    /\ owVerdict' = OwFailureVerdict(owError, owSteps)
    /\ owPc' = "done"
    /\ UNCHANGED <<owArgs, owSteps, owWarnings, owLocals, owLog, owError>>
    /\ UNCHANGED outsideWorkflow

OrchestrateWorkflowNext ==
    \/ OwGitCheck
    \/ OwPlatform
    \/ OwCurrentBranch
    \/ OwStartWork
    \/ OwCompleteFeature
    \/ OwAddressFeedback
    \/ OwHotfix
    \/ OwReleasePrep
    \/ OwCleanup
    \/ OwReturn
    \/ OwCatch

OrchestrateWorkflowAlone ==
    /\ OrchestrateWorkflowInit
    /\ SyncWorkIdle /\ ResolveConflictsIdle /\ PrepareBranchIdle /\ CountIdle /\ ParseIdle
    /\ SmartIdle

WorkflowSpec == OrchestrateWorkflowAlone /\ [][OrchestrateWorkflowNext]_vars

----------------------------------------------------------------------------
(* The three tools side by side: one of them is invoked *)

ToolsInit ==
    \/ Init
    \/ /\ ResolveConflictsInit
       /\ SyncWorkIdle /\ PrepareBranchIdle /\ CountIdle /\ ParseIdle /\ SmartIdle
       /\ OrchestrateWorkflowIdle
    \/ /\ PrepareBranchInit
       /\ SyncWorkIdle /\ ResolveConflictsIdle /\ CountIdle /\ ParseIdle /\ SmartIdle
       /\ OrchestrateWorkflowIdle

ToolsNext ==
    \/ Next
    \/ ResolveConflictsNext
    \/ PrepareBranchNext

ToolsSpec == ToolsInit /\ [][ToolsNext]_vars

----------------------------------------------------------------------------
(* resolveConflicts and prepareBranch, each invoked on its own *)

ResolveConflictsAlone ==
    /\ ResolveConflictsInit
    /\ SyncWorkIdle /\ PrepareBranchIdle /\ CountIdle /\ ParseIdle /\ SmartIdle
    /\ OrchestrateWorkflowIdle

ResolveConflictsSpec == ResolveConflictsAlone /\ [][ResolveConflictsNext]_vars

PrepareBranchAlone ==
    /\ PrepareBranchInit
    /\ SyncWorkIdle /\ ResolveConflictsIdle /\ CountIdle /\ ParseIdle /\ SmartIdle
    /\ OrchestrateWorkflowIdle

PrepareBranchSpec == PrepareBranchAlone /\ [][PrepareBranchNext]_vars

----------------------------------------------------------------------------
(* Vocabulary of the properties: what the command history shows *)

SyncCommands == {"git merge --ff-only", "git merge --no-ff", "git rebase"}
ResolutionCommands == {"git checkout --ours", "git checkout --theirs"}
ContinuationCommands == {"git rebase --continue", "git commit --no-edit"}
UnmergedQuery == "git diff --name-only --diff-filter=U"
PushCommand == "git push --force-with-lease origin"
AheadBehindQuery == "git rev-list --left-right --count"

MutatingCommands ==
    {"git checkout", "git fetch origin", "git add", PushCommand}
        \cup SyncCommands \cup ResolutionCommands \cup ContinuationCommands

\* the positions of the history at which one of `cmds` was executed
Positions(cmds) == {i \in 1..Len(log) : log[i].cmd \in cmds}

Ran(cmds) == Positions(cmds) # {}

RanOk(cmds) == \E i \in Positions(cmds) : log[i].result.success

\* "Unknown strategy"
UnknownStrategy == <<"U","n","k","n","o","w","n"," ","s","t","r","a","t","e","g","y">>

\* "Fast-forward not possible"
FastForwardNotPossibleShort == <<"F","a","s","t","-","f","o","r","w","a","r","d"," ","n","o","t"," ","p","o","s","s","i","b","l","e">>

\* the failure verdict carries an error text that contains `text`
FailsWith(label, text) ==
    /\ verdict.kind = "failure"
    /\ verdict.message[1] = label
    /\ Includes(verdict.message[2], text)

----------------------------------------------------------------------------
(* C1 *)

\* performSync has raised the unknown-strategy error
UnknownStrategyRaised == Includes(syncResult.error, UnknownStrategy)

\* C1: an unrecognized strategy is rejected with a failure verdict whose message
\* contains "Unknown strategy", and no command has been executed through the
\* command port when that error is raised.
C1_UnknownStrategyBeforeAnyCommand ==
    /\ UnknownStrategyRaised => log = <<>>
    /\ (args.strategy = "invalid" /\ pc = "done" /\ UnknownStrategyRaised)
            => FailsWith("Sync failed: ", UnknownStrategy)

----------------------------------------------------------------------------
(* C2 *)

\* C2: the success verdict is returned only if the sync command itself succeeded
\* or the continuation command ran and succeeded; in particular never when no
\* conflicted file could be auto-resolved.
C2_SuccessOnlyAfterSyncOrContinuation ==
    verdict.kind = "success" => (syncResult.success \/ RanOk(ContinuationCommands))

----------------------------------------------------------------------------
(* C3 *)

NotARepository ==
    \E i \in Positions({"git rev-parse --git-dir"}) : ~log[i].result.success

TargetUnresolvable ==
    /\ Ran({"git branch --show-current"})
    /\ args.targetBranch = Undefined
    /\ LET r == log[2].result IN ~r.success \/ r.stdout = EmptyString

TargetMissingLocally ==
    \E i \in Positions({"git branch --list"}) :
        \/ ~log[i].result.success
        \/ Lines(log[i].result.stdout) \cap {log[i].arg, "* " \o log[i].arg} = {}

SourceMissingOnRemote ==
    \E i \in Positions({"git ls-remote --heads origin"}) :
        ~log[i].result.success \/ log[i].result.stdout = <<>>

DirtyWhenSwitching ==
    \E i \in Positions({"git status --porcelain"}) :
        ~log[i].result.success \/ log[i].result.stdout # <<>>

PreconditionFailure(condition, label) ==
    condition => /\ pc = "done"
                 /\ verdict.kind = "failure"
                 /\ verdict.message[1] = label
                 /\ ~Ran(MutatingCommands)

\* C3: every precondition failure yields a failure verdict naming that condition
\* with no mutating command executed before it, and git stash is never executed.
C3_PreconditionFailuresAbortBeforeMutation ==
    /\ PreconditionFailure(NotARepository, "Not in a git repository")
    /\ PreconditionFailure(TargetUnresolvable,
            "Cannot determine target branch (detached HEAD and no branch specified)")
    /\ PreconditionFailure(TargetMissingLocally, "Target branch does not exist locally: ")
    /\ PreconditionFailure(SourceMissingOnRemote, "Source branch does not exist on remote: ")
    /\ PreconditionFailure(DirtyWhenSwitching,
            "Working directory not clean. Commit or stash changes before switching branches.")
    /\ \A i \in 1..Len(log) : log[i].cmd \notin {"git stash", "git stash push", "git stash pop"}

\* a switch to another branch was required and the working directory was dirty
C3_Witness ==
    /\ DirtyWhenSwitching
    /\ args.targetBranch # Undefined
    /\ currentBranch \in Branches
    /\ verdict.kind = "failure"

----------------------------------------------------------------------------
(* C4 *)

\* the commands that resolve, stage, continue or push
ResolvingCommands ==
    ResolutionCommands \cup {"git add"} \cup ContinuationCommands \cup {PushCommand}

\* the sync command failed and the unmerged-files query reported files
StoppedWithUnmergedFiles ==
    /\ RanOk({UnmergedQuery})
    /\ \E i \in Positions({UnmergedQuery}) :
            log[i].result.success /\ log[i].result.stdout # <<>>

\* C4: when the sync command stops with unmerged files and no autoResolve strategy
\* was given, no resolution, staging, continuation or push command is executed, and
\* the invocation returns a manual-resolution report that names every unmerged file.
C4_ManualReportWithoutResolution ==
    (StoppedWithUnmergedFiles /\ args.autoResolve = Undefined) =>
        /\ ~Ran(ResolvingCommands)
        /\ pc \in {"getConflictFiles", "done"}
        /\ pc = "done" =>
            /\ verdict.kind = "conflicts"
            /\ Lines(verdict.conflicts) = unmerged

----------------------------------------------------------------------------
(* C5 *)

\* git merge --ff-only failed because the branches have diverged
FastForwardDiverged ==
    \E i \in Positions({"git merge --ff-only"}) :
        /\ ~log[i].result.success
        /\ log[i].result.error \in {ErrNotFastForward, ErrNotFastForwardLower}

\* C5: when the ff-only merge fails because the branches have diverged, the
\* invocation returns a failure verdict carrying "Fast-forward not possible", not
\* the raw command error and not a conflict report, and lists no conflicted file.
C5_DivergenceIsDistinctFailure ==
    (FastForwardDiverged /\ pc = "done") =>
        /\ FailsWith("Sync failed: ", FastForwardNotPossibleShort)
        /\ verdict.conflicts = <<>>

----------------------------------------------------------------------------
(* C6 *)

\* C6: with strategy fast-forward no resolution, staging or continuation command
\* is executed, and no success verdict follows a failed fast-forward.
C6_FastForwardNeverAutoResolves ==
    args.strategy = "fast-forward" =>
        /\ ~Ran(ResolutionCommands \cup {"git add"} \cup ContinuationCommands)
        /\ verdict.kind = "success" => RanOk({"git merge --ff-only"})

----------------------------------------------------------------------------
(* C7 *)

\* performSync has returned a failure
SyncFailed == ~syncResult.success /\ syncResult.error # NoText

\* the conflict branch of line 164 has been entered
ClassifiedAsConflict ==
    SyncFailed /\ (pc = "getConflictFiles" \/ Cardinality(Positions({UnmergedQuery})) = 2)

\* the failed sync command's error output
SyncErrorOutput ==
    IF Ran(SyncCommands)
    THEN log[CHOOSE i \in Positions(SyncCommands) : TRUE].result.error
    ELSE syncResult.error

\* the unmerged-files query of hasConflicts() has run and reported at least one file
UnmergedFilesReported ==
    /\ Ran({UnmergedQuery})
    /\ LET i == CHOOSE j \in Positions({UnmergedQuery}) :
                    \A k \in Positions({UnmergedQuery}) : j <= k
       IN log[i].result.success /\ log[i].result.stdout # <<>>

\* a failure of the sync command that is not a conflict ends the invocation
GenericFailure ==
    /\ pc = "done"
    /\ verdict.kind = "failure"
    /\ verdict.message = <<"Sync failed: ", syncResult.error>>
    /\ ~Ran(ResolvingCommands)
    /\ Cardinality(Positions(SyncCommands)) <= 1

\* C7: a failed sync is classified as a conflict only when the error output
\* contains a conflict indicator and the unmerged-files query reports a file; every
\* other failure of the sync command ends the invocation with the failure verdict,
\* no resolution or continuation command and no retry.
C7_ConflictNeedsIndicatorAndUnmergedFiles ==
    /\ ClassifiedAsConflict =>
            (Includes(SyncErrorOutput, ConflictIndicator) /\ UnmergedFilesReported)
    /\ (SyncFailed /\ Ran({UnmergedQuery}) /\ ~ClassifiedAsConflict) => GenericFailure

----------------------------------------------------------------------------
(* C8 *)

\* handleAutoResolve has run and the invocation has returned
AutoResolveDone == pc = "done" /\ Ran(ResolutionCommands)

\* C8: the continuation command is executed if and only if at least one file was
\* resolved and staged, at most once, after all files were processed, and it is
\* git rebase --continue for rebase and git commit --no-edit for merge.
C8_ContinuationIffResolved ==
    (AutoResolveDone /\ args.strategy \in {"rebase", "merge", "fast-forward"}) =>
        /\ Ran(ContinuationCommands) <=> RanOk({"git add"})
        /\ Cardinality(Positions(ContinuationCommands)) <= 1
        /\ \A i \in Positions(ContinuationCommands) :
            /\ \A j \in Positions(ResolutionCommands \cup {"git add"}) : j < i
            /\ log[i].cmd = IF args.strategy = "rebase" THEN "git rebase --continue"
                            ELSE "git commit --no-edit"

----------------------------------------------------------------------------
(* C9 *)

\* C9: if the continuation command fails, it is the last command executed (no
\* after-sync query, no push) and the invocation returns the failure verdict
\* "Failed to continue sync after conflict resolution" with the command's error.
C9_ContinuationFailureIsFatal ==
    \A i \in Positions(ContinuationCommands) :
        ~log[i].result.success =>
            /\ i = Len(log)
            /\ pc \in {"continueFailed", "done"}
            /\ pc = "done" =>
                /\ verdict.kind = "failure"
                /\ verdict.message = <<"Failed to continue sync after conflict resolution: ",
                                       log[i].result.error>>

\* a continuation command has failed
C9_Witness ==
    /\ \E i \in Positions(ContinuationCommands) :
            ~log[i].result.success /\ log[i].result.error = ErrConflict
    /\ verdict.kind = "failure"

----------------------------------------------------------------------------
(* C10 *)

\* the resolution, staging and continuation commands of the history, in order
ResolutionTrace ==
    LET picked == SelectSeq(log, LAMBDA e :
                    e.cmd \in ResolutionCommands \cup {"git add"} \cup ContinuationCommands)
    IN [i \in 1..Len(picked) |-> <<picked[i].cmd, picked[i].arg>>]

\* merge with autoResolve theirs, a conflict in exactly one file, and every
\* command but the merge succeeded
OneFileTheirsMerge ==
    /\ args.strategy = "merge"
    /\ args.autoResolve = "theirs"
    /\ pc = "done"
    /\ Len(conflicts) = 1
    /\ \A i \in 1..Len(log) : log[i].result.success <=> log[i].cmd # "git merge --no-ff"

\* C10: in that case the commands after the failed merge are git checkout --theirs
\* <file>, git add <file>, git commit --no-edit, in this order, and the verdict is
\* success; a commit is never issued before a file was staged.
C10_TheirsMergeResolvesStagesCommits ==
    /\ OneFileTheirsMerge =>
        /\ ResolutionTrace = <<<<"git checkout --theirs", conflicts[1]>>,
                               <<"git add", conflicts[1]>>,
                               <<"git commit --no-edit", "">>>>
        /\ verdict.kind = "success"
    /\ \A i \in Positions({"git commit --no-edit"}) :
            \E j \in Positions({"git add"}) : j < i /\ log[j].result.success

\* the one-file merge has been resolved, staged and committed
C10_Witness ==
    /\ OneFileTheirsMerge
    /\ Ran({"git commit --no-edit"})
    /\ verdict.conflicts = <<"file2.txt">>

----------------------------------------------------------------------------
(* C12 *)

\* C12: with autoResolve = smart the resolution of a file is decided by the
\* classification of its conflict blocks; it is not the whole-file
\* git checkout --theirs that autoResolve = theirs runs.
C12_SmartIsNotWholeFileTheirs ==
    args.autoResolve = "smart" => ~Ran({"git checkout --theirs"})

----------------------------------------------------------------------------
(* C14 *)

\* C14: git push --force-with-lease is executed only after the sync command
\* succeeded or the continuation command succeeded, only if forcePush was requested
\* and the after-sync ahead count is greater than 0, and at most once; when the
\* push fails the verdict is still success and carries a warning.
C14_ForcePushOnlyAfterSuccess ==
    /\ Ran({PushCommand}) =>
            /\ syncResult.success \/ RanOk(ContinuationCommands)
            /\ args.forcePush
            /\ GreaterThanZero(afterSync.ahead)
    /\ Cardinality(Positions({PushCommand})) <= 1
    /\ (pc = "done" /\ Ran({PushCommand}) /\ ~RanOk({PushCommand})) =>
            /\ verdict.kind = "success"
            /\ \E i \in 1..Len(verdict.warnings) :
                    verdict.warnings[i][1] = "Failed to force push: "

----------------------------------------------------------------------------
(* C15 *)

\* the position of the sync command in the history
SyncPosition == CHOOSE i \in Positions(SyncCommands) : TRUE

\* C15: in every invocation that ran the sync command, the ahead/behind query ran
\* exactly once before it and exactly once after it, for the same branch, whatever
\* the verdict (success, manual-resolution report or failure).
C15_AheadBehindOnceBeforeOnceAfter ==
    (pc = "done" /\ Ran(SyncCommands)) =>
        LET before == {i \in Positions({AheadBehindQuery}) : i < SyncPosition}
            after == {i \in Positions({AheadBehindQuery}) : i > SyncPosition}
        IN /\ Cardinality(before) = 1
           /\ Cardinality(after) = 1
           /\ \A i \in before, j \in after : log[i].arg = log[j].arg

----------------------------------------------------------------------------
(* C16 *)

\* getAheadBehindInfo has been applied to the result of the count command
AheadBehindApplied == countInfo # NoInfo

\* C16: for every output "L<TAB>R" of the count command with natural numbers L
\* and R, the query reports behind = L and ahead = R.
C16_WellFormedCountsAreReported ==
    \A l, r \in 0..MaxCount :
        (AheadBehindApplied /\ countResult = Ok(CountOutput(l, r))) =>
            countInfo = [ahead |-> Number(r), behind |-> Number(l)]

\* two commits only on the branch, none only on the upstream: 2 ahead, 0 behind
C16_Witness ==
    /\ countResult = Ok(<<"0", "\t", "2">>)
    /\ countInfo = [ahead |-> Number(2), behind |-> Number(0)]

----------------------------------------------------------------------------
(* C17 *)

\* JavaScript has no "unknown": a field that is unknown is not a number
Unknown(v) == v.type # "number"

\* the count command failed or its output is not two counts
CountsMalformed == ~countResult.success \/ countResult.stdout \in MalformedCounts

\* C17: when the count command fails or its output is malformed, the query
\* reports ahead and behind as unknown, never as the number 0.
C17_MalformedCountsAreUnknown ==
    (AheadBehindApplied /\ CountsMalformed) =>
        Unknown(countInfo.ahead) /\ Unknown(countInfo.behind)

----------------------------------------------------------------------------
(* C19 *)

\* analyzeFileConflicts has returned
Analyzed == analysis # NoResult

MarkerLine(line) ==
    StartsWith(line, StartMarker) \/ StartsWith(line, MiddleMarker)
        \/ StartsWith(line, EndMarker)

\* lines s..e are a well-formed conflict region: a start-marker line, later a
\* middle-marker line, later an end-marker line, and no other marker line inside
WellFormedRegion(lines, s, e) ==
    /\ s < e
    /\ StartsWith(LineAt(lines, s), StartMarker)
    /\ StartsWith(LineAt(lines, e), EndMarker)
    /\ \E m \in (s + 1)..(e - 1) :
            /\ StartsWith(LineAt(lines, m), MiddleMarker)
            /\ \A k \in (s + 1)..(e - 1) : k # m => ~MarkerLine(LineAt(lines, k))

Regions(lines) ==
    {r \in (0..(Len(lines) - 1)) \X (0..(Len(lines) - 1)) :
        WellFormedRegion(lines, r[1], r[2])}

\* the blocks are in document order and each has start < end
InDocumentOrder(blocks) ==
    /\ \A i \in 1..Len(blocks) : blocks[i].start < blocks[i].end
    /\ \A i \in 1..(Len(blocks) - 1) : blocks[i].end < blocks[i + 1].start

\* C19 as claimed: for every content with exactly N well-formed conflict regions
\* the parser returns exactly N blocks, in document order, each with start < end,
\* whose start and end are the line numbers of the region's start and end markers.
C19_BlocksAreTheWellFormedRegions ==
    Analyzed =>
        LET blocks == analysis.conflictBlocks
        IN /\ Len(blocks) = Cardinality(Regions(content))
           /\ analysis.totalConflicts = Cardinality(Regions(content))
           /\ InDocumentOrder(blocks)
           /\ {<<blocks[i].start, blocks[i].end>> : i \in 1..Len(blocks)} = Regions(content)

\* every marker line of the file belongs to a well-formed region
AllMarkersInRegions(lines) ==
    \A k \in 0..(Len(lines) - 1) :
        MarkerLine(LineAt(lines, k)) =>
            \E r \in Regions(lines) : r[1] <= k /\ k <= r[2]

\* C19 amended: the parser returns its blocks in document order, each with
\* start < end; every well-formed region is covered by exactly one block, which
\* ends at the region's end marker and starts at or before its start marker; and
\* when every marker line of the file belongs to one of its N well-formed regions
\* the blocks are exactly these N regions, with start and end the line numbers of
\* the region's markers.
C19_WellFormedRegionsAreCovered ==
    Analyzed =>
        LET blocks == analysis.conflictBlocks
            spans == {<<blocks[i].start, blocks[i].end>> : i \in 1..Len(blocks)}
        IN /\ InDocumentOrder(blocks)
           /\ analysis.totalConflicts = Len(blocks)
           /\ \A r \in Regions(content) :
                Cardinality({i \in 1..Len(blocks) :
                    blocks[i].start <= r[1] /\ blocks[i].end = r[2]}) = 1
           /\ AllMarkersInRegions(content) =>
                /\ Len(blocks) = Cardinality(Regions(content))
                /\ spans = Regions(content)

\* a file of two well-formed regions, parsed into the blocks 0..2 and 3..5
C19_Witness ==
    /\ Analyzed
    /\ AllMarkersInRegions(content)
    /\ Regions(content) = {<<0, 2>>, <<3, 5>>}
    /\ analysis.totalConflicts = 2
    /\ analysis.conflictBlocks[2].start = 3

----------------------------------------------------------------------------
(* C20 *)

\* a line after line s starts with `marker`
MarkerAfter(lines, s, marker) ==
    \E k \in (s + 1)..(Len(lines) - 1) : StartsWith(LineAt(lines, k), marker)

\* line s is a start marker with no middle marker or no end marker after it
Dangling(lines, s) ==
    /\ StartsWith(LineAt(lines, s), StartMarker)
    /\ ~MarkerAfter(lines, s, MiddleMarker) \/ ~MarkerAfter(lines, s, EndMarker)

\* a start marker, later a middle marker, later an end marker
CompleteRegion(lines) ==
    \E s, m, e \in 0..(Len(lines) - 1) :
        /\ s < m /\ m < e
        /\ StartsWith(LineAt(lines, s), StartMarker)
        /\ StartsWith(LineAt(lines, m), MiddleMarker)
        /\ StartsWith(LineAt(lines, e), EndMarker)

\* C20: a start-marker line with no middle marker or no end marker after it
\* before the end of the file yields no block (and no error: the parser returns a
\* result for every content), the blocks found before it are kept, and a file
\* without any complete region yields zero blocks.
C20_DanglingStartYieldsNoBlock ==
    Analyzed =>
        LET blocks == analysis.conflictBlocks
        IN /\ \A s \in 0..(Len(content) - 1) :
                Dangling(content, s) =>
                    /\ \A i \in 1..Len(blocks) : blocks[i].start # s
                    /\ AnalyzeFileConflicts(Slice(content, 0, s)).conflictBlocks
                            = SelectSeq(blocks, LAMBDA b : b.end < s)
           /\ ~CompleteRegion(content) =>
                blocks = <<>> /\ analysis.totalConflicts = 0

\* a region, then a start marker that has a middle marker but no end marker
C20_Witness ==
    /\ Analyzed
    /\ Len(content) = 6
    /\ Dangling(content, 3)
    /\ MarkerAfter(content, 3, MiddleMarker)
    /\ analysis.totalConflicts = 1
    /\ analysis.conflictBlocks[1].end = 2

----------------------------------------------------------------------------
(* Vocabulary of the properties about the per-file loops *)

IsPrefix(a, b) == Len(a) <= Len(b) /\ SubSeq(b, 1, Len(a)) = a

Range(list) == {list[i] : i \in 1..Len(list)}

\* the arguments of the commands of `cmds`, in the order the history shows them
CommandArgs(history, cmds) ==
    LET ran == SelectSeq(history, LAMBDA e : e.cmd \in cmds)
    IN [i \in 1..Len(ran) |-> ran[i].arg]

\* the files named by the entries of a list of steps or warnings that start with `label`
Named(list, label) ==
    LET labelled == SelectSeq(list, LAMBDA e : e[1] = label)
    IN [i \in 1..Len(labelled) |-> labelled[i][2]]

\* the position of a file in a list of distinct files
IndexIn(list, file) == CHOOSE k \in 1..Len(list) : list[k] = file

\* `part` names files of `list`, each once, in the order of `list`
InListOrder(part, list) ==
    /\ Range(part) \subseteq Range(list)
    /\ \A i, j \in 1..Len(part) : i < j => IndexIn(list, part[i]) < IndexIn(list, part[j])

\* staging commands of a history that name `file`
Staged(history, file) == \E i \in 1..Len(history) :
    history[i].cmd = "git add" /\ history[i].arg = file

\* the checkout that takes one side of a whole file
SideCheckout(side) ==
    IF side = "ours" THEN "git checkout --ours" ELSE "git checkout --theirs"

\* sync-work: the loop of handleAutoResolve has run to its end
SyncLoopOver == WantsAutoResolve(args.autoResolve, conflicts) /\ pc \notin {"resolveFile", "smartFailed", "stageFile"}

SyncUnresolved == Named(warnings, "Failed to auto-resolve conflict in ")
SyncUnstaged == Named(warnings, "Resolved conflict but failed to stage: ")
SyncStaged == Named(steps, "Auto-resolved conflict in ")

\* resolve-conflicts: handleAutoResolve has files to resolve; its loop has run to its end
RcAutoResolving == rcArgs.action = "auto-resolve" /\ Len(conflictedFiles) > 0

RcLoopOver == RcAutoResolving /\ rcPc \in {"state", "continue", "report", "done"}

RcFailed == Named(rcWarnings, "Failed to resolve")
RcUnstaged == Named(rcWarnings, "Resolved but failed to stage")
RcStaged == Named(rcSteps, "Resolved and staged")
RcWould == Named(rcSteps, "Would resolve")
RcDetailed == [i \in 1..Len(resolutionDetails) |-> resolutionDetails[i][1]]

----------------------------------------------------------------------------
(* C11 *)

\* sync-work: a failed checkout leaves a warning naming the file and the file is
\* never staged; a failed staging leaves a warning naming the file; the loop
\* visits every file in order; the files that were staged are counted and reported
C11_SyncWork ==
    LET checkouts == SelectSeq(log, LAMBDA e : e.cmd \in ResolutionCommands)
        adds == SelectSeq(log, LAMBDA e : e.cmd = "git add")
    IN /\ \A i \in 1..Len(checkouts) :
            ~checkouts[i].result.success =>
               /\ \/ checkouts[i].arg \in Range(SyncUnresolved)
                  \/ pc = "smartFailed" /\ i = Len(checkouts)
               /\ \A j \in 1..Len(adds) : adds[j].arg # checkouts[i].arg
       /\ \A j \in 1..Len(adds) :
            IF adds[j].result.success THEN adds[j].arg \in Range(SyncStaged)
            ELSE adds[j].arg \in Range(SyncUnstaged)
       /\ Len(checkouts) <= Len(conflicts)
       /\ \A i \in 1..Len(checkouts) : checkouts[i].arg = conflicts[i]
       /\ SyncLoopOver =>
            /\ Len(checkouts) = Len(conflicts)
            /\ Len(SyncUnresolved) + Len(SyncUnstaged) + Len(SyncStaged) = Len(conflicts)
       /\ resolvedCount = Len(SyncStaged)
       /\ Len(checkouts) > 0 /\ verdict.kind = "failure" =>
            /\ verdict.message[1] = "Failed to continue sync after conflict resolution: "
            /\ resolvedCount > 0
       /\ Len(checkouts) > 0 /\ verdict.kind = "success" =>
            verdict.steps = steps /\ verdict.warnings = warnings

\* resolve-conflicts: the same, with the count taken before the staging
C11_ResolveConflicts ==
    RcAutoResolving =>
        /\ \A f \in Range(RcFailed) : ~Staged(rcLog, f)
        /\ \A i \in 1..Len(rcLog) :
             rcLog[i].cmd = "git add" =>
                /\ rcLog[i].arg \in Range(RcDetailed)
                /\ IF rcLog[i].result.success THEN rcLog[i].arg \in Range(RcStaged)
                   ELSE rcLog[i].arg \in Range(RcUnstaged)
        /\ InListOrder(RcFailed, conflictedFiles)
        /\ InListOrder(RcDetailed, conflictedFiles)
        /\ Range(RcFailed) \cap Range(RcDetailed) = {}
        /\ RcLoopOver => Range(RcFailed) \cup Range(RcDetailed) = Range(conflictedFiles)
        /\ totalResolved = Len(RcDetailed) + (IF rcPc = "stageFile" THEN 1 ELSE 0)
        /\ rcPc = "done" =>
             /\ rcVerdict.kind = "report"
             /\ rcVerdict.resolved = totalResolved
             /\ rcVerdict.total = Len(conflictedFiles)
             /\ rcVerdict.details = resolutionDetails
             /\ rcVerdict.warnings = rcWarnings
             /\ rcVerdict.steps = rcSteps

\* C11: in the auto-resolution loops of sync-work and resolve-conflicts a file
\* that fails to resolve or to stage does not end the invocation: a warning
\* names the file, a file whose resolution failed is never staged, every file
\* of the list is still processed in the order of the list, and the files that
\* resolved are counted and reported.
C11_PerFileFailureIsNotFatal == C11_SyncWork /\ C11_ResolveConflicts

\* the first file fails, the second one is resolved, staged, counted and reported
C11_Witness ==
    /\ rcPc = "done"
    /\ rcArgs.action = "auto-resolve"
    /\ conflictedFiles = <<FileName(2), FileName(1)>>
    /\ RcFailed = <<FileName(2)>>
    /\ RcStaged = <<FileName(1)>>
    /\ rcVerdict.kind = "report"
    /\ rcVerdict.resolved = 1

----------------------------------------------------------------------------
(* C13 *)

\* strategy ours or theirs in sync-work: one checkout of that side per file of
\* the list, in the order of the list
C13_SyncWork ==
    args.autoResolve \in {"ours", "theirs"} =>
        LET checkouts == SelectSeq(log, LAMBDA e : e.cmd \in ResolutionCommands)
        IN /\ Len(checkouts) <= Len(conflicts)
           /\ \A i \in 1..Len(checkouts) :
                /\ checkouts[i].cmd = SideCheckout(args.autoResolve)
                /\ checkouts[i].arg = conflicts[i]
           /\ SyncLoopOver => Len(checkouts) = Len(conflicts)

\* the outcome of each file is the outcome of its checkout
RcCheckoutDecides ==
    \A i \in 1..Len(rcLog) :
        rcLog[i].cmd \in ResolutionCommands =>
            /\ rcLog[i].cmd = SideCheckout(rcArgs.strategy)
            /\ IF rcLog[i].result.success
               THEN rcLog[i].arg \notin Range(RcFailed)
               ELSE rcLog[i].arg \in Range(RcFailed)

\* strategy ours or theirs in resolve-conflicts, changes wanted: one checkout per
\* file of the list and no file is read or written
C13_ResolveConflicts ==
    RcAutoResolving /\ rcArgs.strategy \in {"ours", "theirs"} /\ ~rcArgs.previewOnly =>
        /\ fileLog = <<>>
        /\ RcCheckoutDecides
        /\ IsPrefix(CommandArgs(rcLog, ResolutionCommands), conflictedFiles)
        /\ RcLoopOver => CommandArgs(rcLog, ResolutionCommands) = conflictedFiles

\* strategy ours or theirs in resolve-conflicts, preview: no checkout, no file is
\* read, every file is reported as one that would be resolved
C13_Preview ==
    RcAutoResolving /\ rcArgs.strategy \in {"ours", "theirs"} /\ rcArgs.previewOnly =>
        /\ fileLog = <<>>
        /\ ~\E i \in 1..Len(rcLog) : rcLog[i].cmd \in ResolutionCommands
        /\ IsPrefix(RcWould, conflictedFiles)
        /\ RcLoopOver => RcWould = conflictedFiles

\* C13 as stated: with strategy ours or theirs, in sync-work and in
\* resolve-conflicts auto-resolve, exactly one checkout of that side is issued
\* for each conflicted file and no file is read or written.
C13_OneCheckoutPerFile ==
    /\ C13_SyncWork
    /\ RcAutoResolving /\ rcArgs.strategy \in {"ours", "theirs"} =>
         /\ fileLog = <<>>
         /\ RcCheckoutDecides
         /\ IsPrefix(CommandArgs(rcLog, ResolutionCommands), conflictedFiles)
         /\ RcLoopOver => CommandArgs(rcLog, ResolutionCommands) = conflictedFiles

\* C13, amended: the checkout per file is issued in sync-work, and in
\* resolve-conflicts when previewOnly is not set; with previewOnly set
\* resolve-conflicts issues no checkout and reports each file as one that would
\* be resolved.  In every case no file is read or written and the outcome of a
\* file is the outcome of its checkout.
C13_OneCheckoutPerFileUnlessPreview ==
    C13_SyncWork /\ C13_ResolveConflicts /\ C13_Preview

\* sync-work has checked out the ours side of both files of the list
C13_Witness ==
    /\ pc = "done"
    /\ args.autoResolve = "ours"
    /\ Len(conflicts) = 2
    /\ CommandArgs(log, {"git checkout --ours"}) = conflicts

\* resolve-conflicts in preview has gone through a list of two files
C13_PreviewWitness ==
    /\ rcPc = "done"
    /\ rcArgs.strategy = "theirs"
    /\ rcArgs.previewOnly
    /\ Len(conflictedFiles) = 2
    /\ RcWould = conflictedFiles

----------------------------------------------------------------------------
(* C18 *)

\* the failure verdict of each tool, when there is one, holds the steps of the tool
FailuresCarrySteps ==
    /\ verdict.kind = "failure" => verdict.steps = steps
    /\ rcVerdict.kind = "failure" => rcVerdict.steps = rcSteps
    /\ pbVerdict.kind = "failure" => pbVerdict.steps = pbSteps

\* C18: in sync-work, prepare-branch and resolve-conflicts every step of an
\* invocation leaves the steps recorded so far in place and only appends to
\* them, and a failure verdict holds all the steps recorded when it is returned.
C18_StepsOnlyGrow ==
    [][/\ IsPrefix(steps, steps')
       /\ IsPrefix(rcSteps, rcSteps')
       /\ IsPrefix(pbSteps, pbSteps')
       /\ FailuresCarrySteps']_vars

\* the abort command failed after its step was recorded
C18_Witness ==
    /\ rcPc = "done"
    /\ rcVerdict.kind = "failure"
    /\ rcVerdict.steps = <<<<"Aborting current operation", "">>>>

----------------------------------------------------------------------------
(* C30 *)

\* the first line from line j on that starts with `marker`, -1 when there is none
RECURSIVE FirstFrom(_, _, _)
FirstFrom(lines, j, marker) ==
    IF j >= Len(lines) THEN -1
    ELSE IF StartsWith(LineAt(lines, j), marker) THEN j
         ELSE FirstFrom(lines, j + 1, marker)

\* the blocks of a search that, on a start marker at line i, takes the first
\* middle marker after i and the first end marker after that middle marker
RECURSIVE SearchedBlocks(_, _)
SearchedBlocks(lines, i) ==
    IF i >= Len(lines) THEN <<>>
    ELSE IF StartsWith(LineAt(lines, i), StartMarker)
         THEN LET middle == FirstFrom(lines, i + 1, MiddleMarker)
                  end == IF middle = -1 THEN -1
                         ELSE FirstFrom(lines, middle + 1, EndMarker)
              IN IF middle # -1 /\ end # -1
                 THEN <<[start |-> i,
                         end |-> end,
                         oursContent |-> Join(SubSeq(lines, i + 2, middle)),
                         theirsContent |-> Join(SubSeq(lines, middle + 2, end))]>>
                          \o SearchedBlocks(lines, end + 1)
                 ELSE SearchedBlocks(lines, i + 1)
         ELSE SearchedBlocks(lines, i + 1)

\* C30: on a start-marker line the parser takes the first middle marker after it
\* and the first end marker after that middle marker; when both exist it emits
\* the block start..end, ours being the lines strictly between start and middle,
\* theirs the lines strictly between middle and end, and resumes at end + 1; an
\* end-marker line before the first middle marker does not stop the search.
C30_EndBeforeMiddleDoesNotStopTheSearch ==
    Analyzed => analysis.conflictBlocks = SearchedBlocks(content, 0)

----------------------------------------------------------------------------
(* C21 *)

\* the block has been classified
Classified == blockChoice # NoChoice

\* a side is empty: it holds nothing but white space
SideIsEmpty(text) == \A i \in 1..Len(text) : text[i] \in {" ", "\t", "\n"}

\* the eight rules in the stated order: rule n matches the block
RuleMatches(n, o, t) ==
    CASE n = 1 -> SideIsEmpty(o) /\ ~SideIsEmpty(t)
      [] n = 2 -> ~SideIsEmpty(o) /\ SideIsEmpty(t)
      [] n = 3 -> Includes(o, t)
      [] n = 4 -> Includes(t, o)
      [] n = 5 -> IsImportBlock(o, t)
      [] n = 6 -> IsSimpleAddition(o, t)
      [] n = 7 -> IsVersionConflict(o, t)
      [] OTHER -> TRUE

\* the category and the resolution of rule n; rule 8 resolves nothing
RuleOutcome(n, o, t) ==
    CASE n = 1 -> [resolution |-> t, strategy |-> "theirs (ours empty)"]
      [] n = 2 -> [resolution |-> o, strategy |-> "ours (theirs empty)"]
      [] n = 3 -> [resolution |-> o, strategy |-> "ours (includes theirs)"]
      [] n = 4 -> [resolution |-> t, strategy |-> "theirs (includes ours)"]
      [] n = 5 -> [resolution |-> MergeImports(o, t), strategy |-> "merged imports"]
      [] n = 6 -> [resolution |-> o \o <<"\n">> \o t, strategy |-> "combined additions"]
      [] n = 7 -> [resolution |-> t, strategy |-> "theirs (version update)"]
      [] OTHER -> [resolution |-> <<>>, strategy |-> ""]

\* the lowest-numbered rule that matches
FirstRule(o, t) ==
    CHOOSE n \in 1..8 : RuleMatches(n, o, t) /\ \A k \in 1..(n - 1) : ~RuleMatches(k, o, t)

\* the rules that match, rule 8 left out
RulesMatching(o, t) == {n \in 1..7 : RuleMatches(n, o, t)}

\* C21: the classification of a block is a function of its ours and theirs texts:
\* the eight rules (ours empty, theirs empty, ours contains theirs, theirs
\* contains ours, imports on both sides, simple additions, version tokens on both
\* sides, otherwise manual) are tried in this order and the block gets the
\* category and the resolution of the lowest-numbered rule that matches.
C21_FirstMatchingRuleWins ==
    Classified =>
        blockChoice = RuleOutcome(FirstRule(blockOurs, blockTheirs), blockOurs, blockTheirs)

\* a block on which the inclusion rule and the version rule both match, classified
\* by the inclusion rule
C21_Witness ==
    /\ Classified
    /\ blockOurs = DeleteVersionOne
    /\ blockTheirs = VersionOne
    /\ RulesMatching(blockOurs, blockTheirs) = {3, 7}
    /\ blockChoice.strategy = "ours (includes theirs)"
    /\ blockChoice.resolution = DeleteVersionOne

----------------------------------------------------------------------------
(* C23 *)

\* the file has been previewed and, on the same content, resolved
PreviewedAndApplied == smartPreview # NoPreview /\ smartApplied # NoApplied

\* the 1-based start lines of the blocks the preview reports as resolvable
PreviewResolvable ==
    {analysis.conflictBlocks[i].start + 1 :
        i \in {k \in 1..Len(smartPreview.strategy) :
                  smartPreview.strategy[k][1] # "Would require manual resolution"}}

\* the 1-based start lines of the blocks applySmartResolution has resolved
AppliedResolved == {smartApplied.strategy[i][1] : i \in 1..Len(smartApplied.strategy)}

\* C23: for strategy smart the preview runs the classification and the
\* resolved-count logic of the non-preview run: on every file content the
\* resolved count of the preview and the blocks it reports as resolvable are
\* those of the non-preview resolution of the same content.
C23_PreviewAgreesWithResolution ==
    PreviewedAndApplied =>
        /\ smartPreview.resolved = smartApplied.resolved
        /\ PreviewResolvable = AppliedResolved

----------------------------------------------------------------------------
(* C24 *)

\* the rewritten file has been parsed again
Reparsed == smartReparse # NoResult

\* the file holds exactly two well-formed conflict regions and no other marker line
TwoWellFormedBlocks ==
    /\ Cardinality(Regions(content)) = 2
    /\ AllMarkersInRegions(content)

\* C24: the non-preview smart resolution of a file with two well-formed conflict
\* blocks (marker lines at [5,7] and [20,22] for example) removes both marker
\* regions from the file, and the parse of the rewritten content yields zero blocks.
C24_BothRegionsRemoved ==
    (TwoWellFormedBlocks /\ Reparsed) =>
        /\ smartApplied.resolved = 2
        /\ smartApplied.written
        /\ \A i \in 1..Len(smartApplied.content) : ~MarkerLine(smartApplied.content[i])
        /\ smartReparse.totalConflicts = 0

----------------------------------------------------------------------------
(* C22 *)

\* an auto-resolve invocation in preview mode
RcPreviewing == rcArgs.action = "auto-resolve" /\ rcArgs.previewOnly

\* the commands that only ask: the repository check, the four indicator tests
\* and the list of unmerged paths
ReadOnlyCommands ==
    {"git rev-parse --git-dir", "git diff --name-only --diff-filter=U"}
        \cup {StateTests[i] : i \in 1..4}

\* the commands the claim names: stash, checkout of a side, add, commit and the
\* continuations
ChangingCommands ==
    {"git stash push", "git checkout --ours", "git checkout --theirs", "git add",
     "git commit --no-edit", "git rebase --continue", "git cherry-pick --continue"}

\* C22: with previewOnly the auto-resolve action changes nothing, whatever the
\* strategy and the outcomes of the commands: no file is written and none of git
\* stash, git checkout --ours/--theirs, git add, git commit, git rebase --continue
\* and git cherry-pick --continue is executed; what is executed only asks.
C22_PreviewChangesNothing ==
    RcPreviewing =>
        /\ \A i \in 1..Len(fileLog) : fileLog[i].op = "readFileSync"
        /\ \A i \in 1..Len(rcLog) :
            /\ rcLog[i].cmd \notin ChangingCommands
            /\ rcLog[i].cmd \in ReadOnlyCommands

\* a smart preview with backupChanges and continueOperation that has counted
\* both of its files as resolved, one of them holding a block with ours empty
C22_Witness ==
    /\ RcPreviewing
    /\ rcPc = "done"
    /\ rcArgs.strategy = "smart"
    /\ rcArgs.backupChanges
    /\ rcArgs.continueOperation
    /\ Len(conflictedFiles) = 2
    /\ totalResolved = 2
    /\ \E i \in 1..Len(fileLog) : fileLog[i].lines = OursEmptyFile
    /\ \E i \in 1..Len(rcSteps) : rcSteps[i][1] = "Would resolve"

----------------------------------------------------------------------------
(* C25 *)

\* the operation the precedence Merge > Rebase > CherryPick gives
Operation(state) ==
    IF state.inMerge THEN "merge"
    ELSE IF state.inRebase THEN "rebase"
    ELSE IF state.inCherryPick THEN "cherry-pick"
    ELSE NoCommand

ContinuationOf(operation) ==
    CASE operation = "merge" -> "git commit --no-edit"
      [] operation = "rebase" -> "git rebase --continue"
      [] operation = "cherry-pick" -> "git cherry-pick --continue"
      [] OTHER -> NoCommand

AbortOf(operation) ==
    CASE operation = "merge" -> "git merge --abort"
      [] operation = "rebase" -> "git rebase --abort"
      [] operation = "cherry-pick" -> "git cherry-pick --abort"
      [] OTHER -> NoCommand

RcContinuations == {"git commit --no-edit", "git rebase --continue",
                    "git cherry-pick --continue"}

RcAborts == {"git merge --abort", "git rebase --abort", "git cherry-pick --abort"}

\* the results of the four indicator tests in the history, in the order they ran
IndicatorTests == SelectSeq(rcLog, LAMBDA e : e.cmd \in {StateTests[i] : i \in 1..4})

\* C25: the four operation indicators are tested independently of one another,
\* and one precedence, Merge > Rebase > CherryPick, decides the state that is
\* reported and the continuation or abort command that is executed: with the
\* merge and the rebase indicator both present it is the merge command.
C25_OnePrecedenceForStateAndCommand ==
    /\ Len(IndicatorTests) \in {0, 4}
    /\ Len(IndicatorTests) = 4 =>
        /\ \A i \in 1..4 : IndicatorTests[i].cmd = StateTests[i]
        /\ conflictState = [inMerge |-> IndicatorTests[1].result.success,
                            inRebase |-> IndicatorTests[2].result.success
                                            \/ IndicatorTests[3].result.success,
                            inCherryPick |-> IndicatorTests[4].result.success]
    /\ (rcArgs.action = "status" /\ rcVerdict.kind = "report") =>
            rcVerdict.state = Operation(conflictState)
    /\ \A i \in 1..Len(rcLog) :
        /\ rcLog[i].cmd \in RcContinuations =>
                rcLog[i].cmd = ContinuationOf(Operation(conflictState))
        /\ rcLog[i].cmd \in RcAborts =>
                rcLog[i].cmd = AbortOf(Operation(conflictState))

----------------------------------------------------------------------------
(* C26 *)

\* the entries of the history of prepareBranch that executed `cmd`
PbRan(cmd) == SelectSeq(pbLog, LAMBDA e : e.cmd = cmd)

\* the working directory is not clean as far as git status tells: the query
\* failed or listed something
PbNotClean(result) == ~(result.success /\ result.stdout = <<>>)

\* the invocation is past the place where it stashes or not
PbStashDecided == Len(PbRan("git status --porcelain")) = 1 /\ pbPc # "stash"

\* git stash push was executed and succeeded
PbStashed ==
    \E i \in 1..Len(pbLog) : pbLog[i].cmd = "git stash push" /\ pbLog[i].result.success

\* the action is done, no error was thrown and the invocation finds itself on
\* the requested branch (the query of line 132)
PbEndsOnRequestedBranch ==
    /\ pbPc = "done"
    /\ pbVerdict.kind = "success"
    /\ Len(PbRan("git branch --show-current")) = 3
    /\ PbRan("git branch --show-current")[2].result.success
    /\ PbRan("git branch --show-current")[2].result.stdout = pbArgs.branch

PbWarned(label) == \E i \in 1..Len(pbWarnings) : pbWarnings[i][1] = label

\* what the history, the warnings and the verdict show of the stash
StashIsKept ==
    /\ Len(PbRan("git stash push")) <= 1
    /\ PbStashDecided =>
        (Len(PbRan("git stash push")) = 1
            <=> /\ PbNotClean(PbRan("git status --porcelain")[1].result)
                /\ pbArgs.stashChanges
                /\ pbArgs.action # "sync")
    /\ \A i \in 1..Len(pbLog) :
        pbLog[i].cmd = "git stash push" =>
            \A j \in 1..(i - 1) :
                pbLog[j].cmd \in {"git rev-parse --git-dir", "git branch --show-current",
                                  "git status --porcelain"}
    /\ (PbStashed /\ PbEndsOnRequestedBranch) => Len(PbRan("git stash pop")) = 1
    /\ (Len(PbRan("git stash push")) = 1 /\ ~PbStashed) =>
            PbWarned("Failed to stash changes: ")
    /\ \A i \in 1..Len(pbLog) :
        (pbLog[i].cmd = "git stash pop" /\ ~pbLog[i].result.success) =>
            /\ PbWarned("Failed to restore stashed changes - they remain in stash")
            /\ pbVerdict.kind = "failure" => pbError # <<"", NoText>>

\* a step that executes git stash push or git stash pop and sees it fail adds one
\* warning and throws no error; it gives a failure verdict only for an error that
\* was thrown before it
StashFailureGoesOn ==
    (/\ Len(pbLog') = Len(pbLog) + 1
     /\ pbLog'[Len(pbLog')].cmd \in {"git stash push", "git stash pop"}
     /\ ~pbLog'[Len(pbLog')].result.success) =>
        /\ Len(pbWarnings') = Len(pbWarnings) + 1
        /\ pbSteps' = pbSteps
        /\ pbError' = pbError
        /\ pbVerdict'.kind = "failure" => pbError # <<"", NoText>>

\* C26: git stash push is executed if and only if the working directory is not
\* clean, stashChanges is true and the action is not sync, and before any fetch
\* or checkout; when it succeeded and the invocation ends on the requested
\* branch, git stash pop is executed; a failure of the stash or of the pop is a
\* warning and never turns the verdict into a failure.
C26_StashAroundTheAction == []StashIsKept /\ [][StashFailureGoesOn]_vars

----------------------------------------------------------------------------
(* C27 *)

\* the rebase or merge onto the base was executed and failed
PbSyncFailed ==
    \E i \in 1..Len(pbLog) : pbLog[i].cmd \in {"git rebase", "git merge"}
                                /\ ~pbLog[i].result.success

\* the error output of the failed rebase or merge
PbSyncError ==
    LET i == CHOOSE k \in 1..Len(pbLog) : pbLog[k].cmd \in {"git rebase", "git merge"}
    IN pbLog[i].result.error

\* the text holds "conflict"
HoldsConflict(text) ==
    \E i \in 1..(Len(text) - 7) :
        SubSeq(text, i, i + 7) = <<"c", "o", "n", "f", "l", "i", "c", "t">>

PbStepped(label) == \E i \in 1..Len(pbSteps) : pbSteps[i][1] = label

\* what prepareBranch may still execute once the action is done
PbClosingCommands ==
    {"git ls-remote --heads origin", "git push -u origin", "git push origin",
     "git branch --show-current", "git stash pop"}

\* C27: in prepare-branch (actions sync and checkout) a rebase or merge onto the
\* base that fails never gives a failure verdict: a warning is recorded in every
\* case, the step saying that conflicts need manual resolution is recorded
\* exactly when the error output holds "conflict", and no resolution,
\* continuation or abort command is executed afterwards.
C27_FailedSyncWithBaseIsAWarning ==
    PbSyncFailed =>
        /\ pbArgs.action \in {"sync", "checkout"}
        /\ Len(PbRan("git rebase")) + Len(PbRan("git merge")) = 1
        /\ pbVerdict.kind # "failure"
        /\ pbPc \notin {"catch"}
        /\ pbPc = "done" =>
            /\ pbVerdict.kind = "success"
            /\ pbVerdict.warnings = pbWarnings
            /\ pbVerdict.steps = pbSteps
        /\ IF HoldsConflict(PbSyncError)
           THEN /\ PbWarned("Conflicts detected. Run 'git status' to see conflicted files.")
                /\ PbStepped("conflicts need manual resolution")
           ELSE /\ PbWarned("Sync with base failed: ")
                /\ ~PbStepped("conflicts need manual resolution")
        /\ \A i, j \in 1..Len(pbLog) :
            (pbLog[i].cmd \in {"git rebase", "git merge"} /\ i < j) =>
                pbLog[j].cmd \in PbClosingCommands

\* a checkout whose rebase onto the base failed with a conflict, that pushed the
\* branch afterwards and returned a success verdict with the warning
C27_Witness ==
    /\ PbSyncFailed
    /\ HoldsConflict(PbSyncError)
    /\ pbArgs.action = "checkout"
    /\ pbArgs.syncStrategy = "rebase"
    /\ pbPc = "done"
    /\ pbVerdict.kind = "success"
    /\ PbStepped("conflicts need manual resolution")
    /\ \E i \in 1..Len(pbLog) : pbLog[i].cmd = "git push origin"

\* a sync whose merge onto the base failed without a conflict: a warning, no step
C27_OtherFailureWitness ==
    /\ PbSyncFailed
    /\ ~HoldsConflict(PbSyncError)
    /\ pbArgs.action = "sync"
    /\ pbArgs.syncStrategy = "merge"
    /\ pbPc = "done"
    /\ pbVerdict.kind = "success"
    /\ PbWarned("Sync with base failed: ")

----------------------------------------------------------------------------
(* C28 *)

C28_Queries ==
    {"git rev-parse --git-dir", "git remote get-url origin", "git branch --show-current",
     "test -f package.json", "test -f Makefile", "gh pr list", "gh pr view",
     "git branch --merged main", "git status --short"}

C28_StateChanging ==
    {"git checkout", "git checkout develop || git checkout staging", "git checkout -b",
     "git pull origin", "git pull", "git fetch origin", "git fetch --prune", "git rebase",
     "git add .", "git commit -m", "git push origin", "git push -u origin", "git branch -d",
     "git gc --prune=now", "gh pr create", "glab mr create", "gh pr comment",
     "npm test || pnpm test || yarn test", "make test"}

C28_DryRunStep == <<"DRY RUN MODE - No actual changes will be made", "">>

\* every executed command of a dry run is a read-only query
C28_OnlyQueriesRan ==
    \A i \in 1..Len(owLog) :
        /\ owLog[i].cmd \in C28_Queries
        /\ owLog[i].cmd \notin C28_StateChanging

\* C28 as claimed: in orchestrate-workflow with dryRun set, whatever the workflow
\* and whatever the commands answer, no state-changing command is executed, only
\* read-only queries run, and the invocation returns a report.
C28_DryRunReturnsReport ==
    (owPc # "idle" /\ owArgs.dryRun) =>
        /\ C28_OnlyQueriesRan
        /\ owPc # "done" => ENABLED OrchestrateWorkflowNext
        /\ owPc = "done" =>
            /\ owVerdict.kind = "report"
            /\ owVerdict.steps = owSteps
            /\ \E i \in 1..Len(owVerdict.steps) : owVerdict.steps[i] = C28_DryRunStep

\* C28 amended: in orchestrate-workflow with dryRun set, whatever the workflow and
\* whatever the commands answer, no state-changing command is executed, only
\* read-only queries run, the invocation always goes on to its return, and what
\* it returns is the report with the dry-run step, except that it returns the
\* failure text with the steps so far when the repository check fails or no
\* working branch can be determined.
C28_DryRunExecutesOnlyQueries ==
    (owPc # "idle" /\ owArgs.dryRun) =>
        /\ C28_OnlyQueriesRan
        /\ owPc # "done" => ENABLED OrchestrateWorkflowNext
        /\ owPc = "done" =>
            /\ owVerdict.kind \in {"report", "failure"}
            /\ owVerdict.steps = owSteps
            /\ owVerdict.kind = "report" =>
                \E i \in 1..Len(owVerdict.steps) : owVerdict.steps[i] = C28_DryRunStep
            /\ owVerdict.kind = "failure" =>
                \/ /\ owVerdict.message[1] = "Not in a git repository"
                   /\ Len(owLog) = 1
                   /\ ~owLog[1].result.success
                \/ /\ owVerdict.message[1] = "Cannot determine working branch"
                   /\ owArgs.workflow \in {"complete-feature", "address-feedback"}

\* a dry run of complete-feature on GitHub that reports the push and the pull
\* request without having executed them
C28_Witness ==
    /\ owPc = "done"
    /\ owArgs.dryRun
    /\ owArgs.workflow = "complete-feature"
    /\ owVerdict.kind = "report"
    /\ \E i \in 1..Len(owSteps) : owSteps[i][1] = "Pushed changes to origin/"
    /\ \E i \in 1..Len(owSteps) : owSteps[i][1] = "Created PR: Complete: "
    /\ \A i \in 1..Len(owLog) : owLog[i].cmd \notin C28_StateChanging

\* a dry run outside a git repository returns the failure text
C28_WitnessNoRepository ==
    /\ owPc = "done"
    /\ owArgs.dryRun
    /\ owVerdict.kind = "failure"
    /\ owVerdict.message[1] = "Not in a git repository"
    /\ Len(owLog) = 1

\* a dry run of complete-feature without branchName on a detached HEAD
C28_WitnessNoBranch ==
    /\ owPc = "done"
    /\ owArgs.dryRun
    /\ owArgs.workflow = "complete-feature"
    /\ owVerdict.kind = "failure"
    /\ owVerdict.message[1] = "Cannot determine working branch"
    /\ \A i \in 1..Len(owLog) : owLog[i].cmd \in C28_Queries

\* each workflow returns its report from a dry run
C28_WitnessHotfix ==
    owPc = "done" /\ owArgs.dryRun /\ owArgs.workflow = "hotfix" /\ owVerdict.kind = "report"

C28_WitnessCleanup ==
    /\ owPc = "done" /\ owArgs.dryRun /\ owArgs.workflow = "cleanup"
    /\ owVerdict.kind = "report"
    /\ \E i \in 1..Len(owLog) :
        /\ owLog[i].cmd = "git branch --merged main"
        /\ Len(owLog[i].result.stdout) > 20

----------------------------------------------------------------------------
(* C29. The cleanup workflow executes git branch -d for at most 5 branches  *)
(* per invocation, each of them a branch that git branch --merged main      *)
(* listed, never main, master, develop or the entry marked `*` (the current *)
(* branch); a failed deletion is a warning, and the deletions after it are  *)
(* still attempted: the invocation ends with the first five of the listed   *)
(* branches (all of them when there are fewer) attempted.                   *)

C29_Deletions == SelectSeq(owLog, LAMBDA e : e.cmd = "git branch -d")

\* the lines of a listing, without the blanks around them
C29_Lines(stdout) ==
    LET lines == SplitLines(stdout)
    IN {Trim(lines[j]) : j \in 1..Len(lines)}

\* what git branch --merged main listed in this invocation
C29_Listed ==
    UNION {C29_Lines(owLog[i].result.stdout) :
           i \in {k \in 1..Len(owLog) :
                    owLog[k].cmd = "git branch --merged main" /\ owLog[k].result.success}}

\* the name on the line marked `*`
C29_Current(listed) ==
    {Trim(SubSeq(l, 2, Len(l))) : l \in {x \in listed : x # <<>> /\ x[1] = "*"}}

C29_Deletable(listed) ==
    {l \in listed : l # <<>> /\ l[1] # "*"} \ {MainName, MasterName, DevelopName}

C29_Min(a, b) == IF a < b THEN a ELSE b

C29_CleanupDeletesAtMostFiveMergedBranches ==
    LET deletions == C29_Deletions
        listed == C29_Listed
        current == C29_Current(listed)
    IN /\ Len(deletions) <= 5
       /\ \A i \in 1..Len(deletions) :
            /\ deletions[i].arg \in listed
            /\ deletions[i].arg \notin {MainName, MasterName, DevelopName}
            /\ deletions[i].arg \notin current
            /\ deletions[i].arg # <<>> /\ deletions[i].arg[1] # "*"
            /\ \A j \in 1..Len(deletions) : deletions[j].arg = deletions[i].arg => j = i
            /\ ~deletions[i].result.success =>
                \E w \in 1..Len(owWarnings) :
                    owWarnings[w] = <<"Failed to delete ", deletions[i].arg,
                                      deletions[i].result.error>>
       /\ Len(deletions) > 0 => owArgs.workflow = "cleanup" /\ ~owArgs.dryRun
       /\ (owPc = "done" /\ owArgs.workflow = "cleanup" /\ owVerdict.kind = "report") =>
            /\ owVerdict.warnings = owWarnings
            /\ ~owArgs.dryRun =>
                Len(deletions) = C29_Min(5, Cardinality(C29_Deletable(listed)))

\* six merged branches besides the current and the protected ones: five
\* deletions attempted, the second fails, the three after it are attempted
C29_Witness ==
    /\ owPc = "done"
    /\ owArgs.workflow = "cleanup"
    /\ Cardinality(C29_Deletable(C29_Listed)) > 5
    /\ C29_Current(C29_Listed) # {}
    /\ Len(C29_Deletions) = 5
    /\ ~C29_Deletions[2].result.success
    /\ C29_Deletions[5].result.success
    /\ \E w \in 1..Len(owVerdict.warnings) :
        owVerdict.warnings[w] = <<"Failed to delete ", C29_Deletions[2].arg,
                                  C29_Deletions[2].result.error>>

----------------------------------------------------------------------------
(* C31. When smart resolution rewrites a file, the blocks are spliced from  *)
(* the last to the first (the strategies are reported with falling line     *)
(* numbers), and the text written is the original text with the span        *)
(* start..end of each resolved block replaced by its resolution: every line *)
(* outside a resolved span is kept in place, and a block that is not        *)
(* resolved is kept with its markers.                                       *)

C31_IsResolved(block) ==
    SmartResolution(block.oursContent, block.theirsContent).resolution # <<>>

\* the original lines from line `from` on, read forwards, with the span of each
\* resolved block from block i on replaced by its resolution
RECURSIVE C31_Substituted(_, _, _, _)
C31_Substituted(lines, blocks, i, from) ==
    IF i > Len(blocks) THEN SubSeq(lines, from + 1, Len(lines))
    ELSE SubSeq(lines, from + 1, blocks[i].start)
            \o (IF C31_IsResolved(blocks[i])
                THEN <<SmartResolution(blocks[i].oursContent,
                                       blocks[i].theirsContent).resolution>>
                ELSE SubSeq(lines, blocks[i].start + 1, blocks[i].end + 1))
            \o C31_Substituted(lines, blocks, i + 1, blocks[i].end + 1)

C31_RewriteSubstitutesResolvedSpans ==
    (smartApplied # NoApplied /\ smartApplied.written) =>
        /\ Join(smartApplied.content)
            = Join(C31_Substituted(content, analysis.conflictBlocks, 1, 0))
        /\ \A i \in 1..(Len(smartApplied.strategy) - 1) :
            smartApplied.strategy[i][1] > smartApplied.strategy[i + 1][1]

\* two blocks, the first resolved to more lines than one, the second resolved
C31_Witness ==
    /\ smartApplied # NoApplied
    /\ smartApplied.written
    /\ Len(analysis.conflictBlocks) = 2
    /\ C31_IsResolved(analysis.conflictBlocks[1])
    /\ C31_IsResolved(analysis.conflictBlocks[2])
    /\ Len(SplitLines(SmartResolution(analysis.conflictBlocks[1].oursContent,
                                      analysis.conflictBlocks[1].theirsContent).resolution)) > 1
    /\ Len(smartApplied.content) < Len(content)

\* a resolved block before a block that is kept with its markers
C31_WitnessUnresolvedKept ==
    /\ smartApplied # NoApplied
    /\ smartApplied.written
    /\ Len(analysis.conflictBlocks) = 2
    /\ C31_IsResolved(analysis.conflictBlocks[1])
    /\ ~C31_IsResolved(analysis.conflictBlocks[2])
    /\ smartApplied.resolved = 1

----------------------------------------------------------------------------
(* C32. The text mergeImports returns consists of the non-blank lines of    *)
(* ours and of theirs, each once, in ascending order of their code units,   *)
(* joined by newlines (the empty text when there is no such line); so       *)
(* mergeImports(ours, theirs) = mergeImports(theirs, ours), and merging a   *)
(* result with itself returns it unchanged.                                 *)

\* the lines of a text that are not blank, as a set
C32_NonBlank(text) ==
    LET lines == SplitLines(text)
    IN {lines[i] : i \in {k \in 1..Len(lines) : \E c \in 1..Len(lines[k]) :
                                                    lines[k][c] \notin WhiteSpace}}

\* a comes before b: at the first place where they differ a has ended or holds
\* the smaller code unit
C32_Before(a, b) ==
    \E k \in 1..Len(b) :
        /\ \A j \in 1..(k - 1) : j <= Len(a) /\ a[j] = b[j]
        /\ k - 1 <= Len(a)
        /\ (k > Len(a) \/ CodeUnit(a[k]) < CodeUnit(b[k]))

C32_IsSortedUnion(result, ours, theirs) ==
    LET wanted == C32_NonBlank(ours) \cup C32_NonBlank(theirs)
        lines == SplitLines(result)
    IN IF wanted = {} THEN result = <<>>
       ELSE /\ {lines[i] : i \in 1..Len(lines)} = wanted
            /\ \A i \in 1..(Len(lines) - 1) : C32_Before(lines[i], lines[i + 1])

C32_MergeImportsIsTheSortedUnion ==
    /\ blockChoice.strategy = "merged imports" =>
        /\ C32_IsSortedUnion(blockChoice.resolution, blockOurs, blockTheirs)
        /\ MergeImports(blockTheirs, blockOurs) = blockChoice.resolution
    /\ blockChoice.strategy = "merged imports of the result" =>
        blockChoice.resolution = blockOurs

\* lines out of order on one side, a line of it repeated on the other, and a
\* blank line dropped
C32_Witness ==
    /\ blockChoice.strategy = "merged imports"
    /\ Len(SplitLines(blockOurs)) = 3
    /\ C32_NonBlank(blockOurs) \cap C32_NonBlank(blockTheirs) # {}
    /\ C32_NonBlank(blockTheirs) \ C32_NonBlank(blockOurs) # {}
    /\ blockChoice.resolution # blockOurs
    /\ Len(SplitLines(blockChoice.resolution)) = 3

\* a result of several lines merged with itself
C32_WitnessMergedAgain ==
    /\ blockChoice.strategy = "merged imports of the result"
    /\ Len(SplitLines(blockChoice.resolution)) > 2

----------------------------------------------------------------------------
(* C33. When none of the rules before it matches, the simple-additions rule *)
(* matches exactly when each side has at most 5 non-blank lines (blank      *)
(* lines inside a side not counted) and neither side contains `delete` or   *)
(* `-`; and when it matches the resolution is ours, a newline, theirs.      *)

C33_EarlierRules ==
    {"theirs (ours empty)", "ours (theirs empty)", "ours (includes theirs)",
     "theirs (includes ours)", "merged imports"}

C33_IsSimple(text) ==
    /\ Len(NonBlankLines(text)) <= 5
    /\ ~Includes(text, DeleteWord)
    /\ ~Includes(text, <<"-">>)

C33_SimpleAdditionsCountNonBlankLines ==
    (blockChoice # NoChoice /\ blockChoice.strategy \notin C33_EarlierRules) =>
        /\ blockChoice.strategy = "combined additions"
            <=> (C33_IsSimple(blockOurs) /\ C33_IsSimple(blockTheirs))
        /\ blockChoice.strategy = "combined additions" =>
            blockChoice.resolution = blockOurs \o <<"\n">> \o blockTheirs

----------------------------------------------------------------------------
(* C34. In auto-resolve, a continuation command (git rebase --continue,     *)
(* git commit --no-edit, git cherry-pick --continue) is executed only if    *)
(* continueOperation is true, previewOnly is false and every targeted file  *)
(* was counted as resolved; at most one is executed in an invocation, and   *)
(* none when no operation indicator is present.                             *)

C34_Continued == SelectSeq(rcLog, LAMBDA e : e.cmd \in RcContinuations)

\* one of the four indicator tests of this invocation succeeded
C34_IndicatorPresent ==
    \E i \in 1..Len(rcLog) :
        rcLog[i].cmd \in {StateTests[k] : k \in 1..4} /\ rcLog[i].result.success

C34_ContinuationOnlyWhenAllResolved ==
    rcArgs.action = "auto-resolve" =>
        /\ Len(C34_Continued) <= 1
        /\ Len(C34_Continued) = 1 =>
            /\ rcArgs.continueOperation
            /\ ~rcArgs.previewOnly
            /\ Len(conflictedFiles) > 0
            /\ totalResolved = Len(conflictedFiles)
            /\ \A i \in 1..Len(conflictedFiles) :
                /\ \E d \in 1..Len(resolutionDetails) :
                        resolutionDetails[d][1] = conflictedFiles[i]
                /\ \A w \in 1..Len(rcWarnings) :
                        rcWarnings[w][1] = "Failed to resolve"
                            => rcWarnings[w][2] # conflictedFiles[i]
            /\ C34_IndicatorPresent
        /\ (rcPc = "done" /\ ~C34_IndicatorPresent) => Len(C34_Continued) = 0

\* two files, both resolved, the operation continued
C34_Witness ==
    /\ rcArgs.action = "auto-resolve"
    /\ rcPc = "done"
    /\ Len(conflictedFiles) = 2
    /\ Len(C34_Continued) = 1

\* all files resolved and continuation asked for, but no indicator: none runs
C34_WitnessNoIndicator ==
    /\ rcArgs.action = "auto-resolve"
    /\ rcPc = "done"
    /\ rcArgs.continueOperation /\ ~rcArgs.previewOnly
    /\ Len(conflictedFiles) = 2 /\ totalResolved = 2
    /\ ~C34_IndicatorPresent
    /\ Len(rcLog) > 4
    /\ Len(C34_Continued) = 0

----------------------------------------------------------------------------
(* C35. In auto-resolve, when the continuation command fails after the      *)
(* resolved files were staged, the invocation ends with a failure verdict   *)
(* that carries a failed-to-continue error of its own, not with the         *)
(* "Auto-resolved" report.                                                  *)

C35_ContinuationFailed ==
    \E i \in 1..Len(rcLog) : rcLog[i].cmd \in RcContinuations /\ ~rcLog[i].result.success

\* every resolved file was staged
C35_AllStaged ==
    /\ \E i \in 1..Len(rcLog) : rcLog[i].cmd = "git add"
    /\ \A i \in 1..Len(rcLog) : rcLog[i].cmd = "git add" => rcLog[i].result.success

C35_FailedContinuationIsAFailure ==
    (/\ rcArgs.action = "auto-resolve" /\ rcPc = "done"
     /\ C35_AllStaged /\ C35_ContinuationFailed) =>
        /\ rcVerdict.kind = "failure"
        /\ rcVerdict.message[1] \in {"Failed to continue rebase", "Failed to complete merge",
                                     "Failed to continue cherry-pick"}
        /\ rcVerdict.message[1] # "Auto-resolved"

----------------------------------------------------------------------------
(* C36. Every call of the command port returning, every invocation of       *)
(* syncWork eventually returns, and returns exactly one verdict: success,   *)
(* the manual-resolution report or failure.  On the way the sync command is *)
(* attempted at most once, each conflicted file is resolved and staged at   *)
(* most once, the continuation command is run at most once, no changing     *)
(* command is run twice and no failed command is run again right away.      *)

C36_Ran(cmds, arg) == Len(SelectSeq(log, LAMBDA e : e.cmd \in cmds /\ e.arg = arg))

C36_AtMostOnce ==
    /\ \A a \in {log[i].arg : i \in 1..Len(log)} :
        /\ \A c \in MutatingCommands : C36_Ran({c}, a) <= 1
        /\ C36_Ran(ResolutionCommands, a) <= 1
    /\ Len(SelectSeq(log, LAMBDA e : e.cmd \in SyncCommands)) <= 1
    /\ Len(SelectSeq(log, LAMBDA e : e.cmd \in ContinuationCommands)) <= 1
    /\ \A i \in 1..(Len(log) - 1) :
        ~log[i].result.success =>
            ~(log[i + 1].cmd = log[i].cmd /\ log[i + 1].arg = log[i].arg)

C36_OneVerdict ==
    /\ pc # "done" => verdict = NoVerdict
    /\ pc = "done" => verdict.kind \in {"success", "conflicts", "failure"}

C36_EveryInvocationReturnsOnce ==
    /\ <>(pc = "done")
    /\ [](C36_OneVerdict /\ C36_AtMostOnce)
    /\ [][verdict # NoVerdict => verdict' = verdict]_vars

\* two conflicted files, each resolved and staged, the operation continued, and
\* the success verdict returned
C36_Witness ==
    /\ pc = "done"
    /\ verdict.kind = "success"
    /\ Len(conflicts) = 2
    /\ \A i \in 1..2 : C36_Ran(ResolutionCommands, conflicts[i]) = 1
                        /\ C36_Ran({"git add"}, conflicts[i]) = 1
    /\ Len(SelectSeq(log, LAMBDA e : e.cmd \in ContinuationCommands)) = 1

\* no file could be resolved: the invocation returns without another attempt
C36_WitnessNothingResolved ==
    /\ pc = "done"
    /\ Len(conflicts) = 2
    /\ \A i \in 1..2 : C36_Ran(ResolutionCommands, conflicts[i]) = 1
    /\ \A i \in 1..Len(log) : log[i].cmd \in ResolutionCommands => ~log[i].result.success
    /\ verdict.kind \in {"success", "conflicts", "failure"}

----------------------------------------------------------------------------
(* C37. In prepare-branch, every stash that was created is accounted for    *)
(* when the invocation returns: git stash pop was attempted, or a warning   *)
(* of the report says that the changes remain in the stash.  This holds on  *)
(* every path, the success path that does not end on the requested branch   *)
(* included.                                                                *)

C37_StashCreated ==
    \E i \in 1..Len(pbLog) : pbLog[i].cmd = "git stash push" /\ pbLog[i].result.success

C37_PopAttempted == \E i \in 1..Len(pbLog) : pbLog[i].cmd = "git stash pop"

C37_StashWarning ==
    \E w \in 1..Len(pbVerdict.warnings) :
        pbVerdict.warnings[w][1] = "Failed to restore stashed changes - they remain in stash"

C37_EveryStashIsAccountedFor ==
    (pbPc = "done" /\ C37_StashCreated) => (C37_PopAttempted \/ C37_StashWarning)

----------------------------------------------------------------------------
(* C38. In smart auto-resolve, a file is staged with git add, and counted   *)
(* toward the all-files-resolved condition, only if every conflict block of *)
(* the file was resolved: a file in which a conflict block is left is never *)
(* staged.                                                                  *)

\* the files written by applySmartResolution in which its result still has a
\* conflict block, and the files it left as they were with a block in them
C38_BlocksLeft ==
    {fileLog[i].file : i \in {k \in 1..Len(fileLog) :
        /\ fileLog[k].success
        /\ \/ fileLog[k].op = "writeFileSync"
           \/ /\ fileLog[k].op = "readFileSync"
              /\ \A j \in (k + 1)..Len(fileLog) :
                    ~(fileLog[j].op = "writeFileSync" /\ fileLog[j].file = fileLog[k].file)
        /\ AnalyzeFileConflicts(fileLog[k].lines).totalConflicts > 0}}

C38_Staged == {rcLog[i].arg : i \in {k \in 1..Len(rcLog) : rcLog[k].cmd = "git add"}}

C38_OnlyFullyResolvedFilesAreStaged ==
    (rcArgs.action = "auto-resolve" /\ rcArgs.strategy = "smart" /\ ~rcArgs.previewOnly) =>
        /\ C38_Staged \cap C38_BlocksLeft = {}
        /\ (rcPc = "done" /\ C38_BlocksLeft # {}) => totalResolved < Len(conflictedFiles)

----------------------------------------------------------------------------
(* C39. The conflict blocks the parser returns are pairwise disjoint and    *)
(* strictly ordered: for every block start + 2 <= end, every block starts   *)
(* after the end of the block before it, the line at start begins with      *)
(* "<<<<<<<" and the line at end with ">>>>>>>", no line of the ours or     *)
(* theirs content begins with ">>>>>>>", and no line of the ours content    *)
(* begins with "=======".                                                   *)

C39_WellFormed(lines, blocks, b) ==
    LET block == blocks[b]
        ours == SplitLines(block.oursContent)
        theirs == SplitLines(block.theirsContent)
    IN /\ block.start >= 0
       /\ block.start + 2 <= block.end
       /\ block.end < Len(lines)
       /\ b > 1 => block.start > blocks[b - 1].end
       /\ StartsWith(LineAt(lines, block.start), StartMarker)
       /\ StartsWith(LineAt(lines, block.end), EndMarker)
       /\ \A k \in 1..Len(ours) :
            ~StartsWith(ours[k], EndMarker) /\ ~StartsWith(ours[k], MiddleMarker)
       /\ \A k \in 1..Len(theirs) : ~StartsWith(theirs[k], EndMarker)

C39_BlocksAreDisjointAndOrdered ==
    analysis # NoResult =>
        LET blocks == analysis.conflictBlocks
        IN \A b \in 1..Len(blocks) : C39_WellFormed(content, blocks, b)

\* a file of two blocks
C39_Witness ==
    /\ analysis # NoResult
    /\ Len(analysis.conflictBlocks) = 2

\* a block after a start marker that found no end of its own side: a second
\* start marker is part of the ours content, a second middle marker of theirs
C39_WitnessMarkersInside ==
    /\ analysis # NoResult
    /\ \E b \in 1..Len(analysis.conflictBlocks) :
          LET block == analysis.conflictBlocks[b]
          IN /\ \E k \in 1..Len(SplitLines(block.oursContent)) :
                    StartsWith(SplitLines(block.oursContent)[k], StartMarker)
             /\ \E k \in 1..Len(SplitLines(block.theirsContent)) :
                    StartsWith(SplitLines(block.theirsContent)[k], MiddleMarker)

----------------------------------------------------------------------------
(* C40. For the smart resolution of one file that is not a preview, the     *)
(* resolved count equals the number of strategy descriptions returned and   *)
(* the number of blocks that a rule of the chain classifies (a block whose  *)
(* two sides are empty is classified by the rule "ours (includes theirs)"   *)
(* and counts as resolved), and the file is written exactly when that       *)
(* count is greater than 0.                                                 *)

\* the blocks that the rule chain classifies: those that do not fall through
\* to "manual resolution needed"
C40_Classified(blocks) ==
    {b \in 1..Len(blocks) :
        SmartResolution(blocks[b].oursContent, blocks[b].theirsContent).strategy # ""}

C40_ResolvedCountIsTheClassifiedBlocks ==
    smartApplied # NoApplied =>
        /\ smartApplied.resolved = Len(smartApplied.strategy)
        /\ smartApplied.resolved = Cardinality(C40_Classified(analysis.conflictBlocks))
        /\ smartApplied.written <=> smartApplied.resolved > 0

====
